---- MODULE Spec2Model ----
(***************************************************************************)
(* Model of the analyzer-mvp scoring engine, the analysis orchestrator,    *)
(* the cache-aside HTTP handlers and the batch pipeline.                   *)
(*                                                                         *)
(* Numbers.  A JavaScript value is a record [k, v]: k = "num" carries the  *)
(* integer v, k = "nan" is NaN, k = "undef" is undefined (a missing        *)
(* field), k = "null" is null.  Scores are carried in units of 0.0001      *)
(* point (Unit = 1 point), so the base score 5 is 50000, a delta of 0.3    *)
(* is 3000 and toFixed(2) is a real rounding to a multiple of 100.         *)
(***************************************************************************)
EXTENDS Integers, Sequences, FiniteSets, Bags, TLC

VARIABLES op, arg, res, weights,
          cache, history, reqs, nextId, produced,
          bTickers, bMax, bI, bPc, bFlight, bResults, bErrors, bSleeps,
          an, acache, ocache,
          clock, written

scoringVars == <<op, arg, res, weights>>
serverVars == <<cache, history, reqs, nextId, produced>>
batchVars == <<bTickers, bMax, bI, bPc, bFlight, bResults, bErrors, bSleeps>>
analysisVars == <<an, acache, ocache>>
ttlVars == <<clock, written>>
vars == <<op, arg, res, weights, cache, history, reqs, nextId, produced,
          bTickers, bMax, bI, bPc, bFlight, bResults, bErrors, bSleeps,
          an, acache, ocache, clock, written>>

----------------------------------------------------------------------------
(* JavaScript values and arithmetic                                        *)

Unit == 100 * 100

Num(n) == [k |-> "num", v |-> n]
NaN == [k |-> "nan", v |-> 0]
Undefined == [k |-> "undef", v |-> 0]
Null == [k |-> "null", v |-> 0]

IsNum(x) == x.k = "num"

\* ToNumber: undefined -> NaN, null -> 0.
ToNum(x) == IF x.k = "null" THEN Num(0) ELSE IF x.k = "undef" THEN NaN ELSE x

\* Truthiness of a numeric field: 0, NaN, undefined and null are falsy.
Truthy(x) == x.k = "num" /\ x.v # 0

\* `x || 0` on a numeric field, as an integer.
OrZero(x) == IF Truthy(x) THEN x.v ELSE 0

\* Relational operators against an integer literal: false on NaN.
JsGT(x, n) == IsNum(ToNum(x)) /\ ToNum(x).v > n
JsGE(x, n) == IsNum(ToNum(x)) /\ ToNum(x).v >= n
JsLT(x, n) == IsNum(ToNum(x)) /\ ToNum(x).v < n
JsLE(x, n) == IsNum(ToNum(x)) /\ ToNum(x).v <= n

\* a * b
JsMul(a, b) ==
  IF IsNum(ToNum(a)) /\ IsNum(ToNum(b)) THEN Num(ToNum(a).v * ToNum(b).v) ELSE NaN

\* a + n for a JS value a and an integer n
JsAdd(a, n) == IF IsNum(a) THEN Num(a.v + n) ELSE NaN

\* The quotient a / b is never materialised: it is compared with the
\* literal p / q (q > 0) by cross multiplication.  x / 0 is +Infinity,
\* -Infinity or NaN (0 / 0); every comparison with NaN is false.
RatioIsNaN(a, b) ==
  \/ ~IsNum(ToNum(a))
  \/ ~IsNum(ToNum(b))
  \/ (ToNum(a).v = 0 /\ ToNum(b).v = 0)

RatioGT(a, b, p, q) ==
  /\ ~RatioIsNaN(a, b)
  /\ IF ToNum(b).v = 0 THEN ToNum(a).v > 0
     ELSE IF ToNum(b).v > 0 THEN ToNum(a).v * q > p * ToNum(b).v
     ELSE ToNum(a).v * q < p * ToNum(b).v

RatioGE(a, b, p, q) ==
  /\ ~RatioIsNaN(a, b)
  /\ IF ToNum(b).v = 0 THEN ToNum(a).v > 0
     ELSE IF ToNum(b).v > 0 THEN ToNum(a).v * q >= p * ToNum(b).v
     ELSE ToNum(a).v * q <= p * ToNum(b).v

RatioLT(a, b, p, q) ==
  /\ ~RatioIsNaN(a, b)
  /\ IF ToNum(b).v = 0 THEN ToNum(a).v < 0
     ELSE IF ToNum(b).v > 0 THEN ToNum(a).v * q < p * ToNum(b).v
     ELSE ToNum(a).v * q > p * ToNum(b).v

Abs(n) == IF n < 0 THEN 0 - n ELSE n

\* Number.prototype.toFixed(2) followed by parseFloat, on an integer x that
\* counts units of 1/scale: the nearest multiple of 0.01, returned in units
\* of 0.0001.  An exact decimal tie (x.xx5) is decided by the binary
\* representation error of the double, which the model leaves open: tieUp
\* says on which side the double fell.
ToFixed2(x, scale, tieUp) ==
  LET step == scale \div 100
      m == Abs(x)
      lo == m \div step
      r == m % step
      n == IF 2 * r > step THEN lo + 1
           ELSE IF 2 * r < step THEN lo
           ELSE IF tieUp THEN lo + 1 ELSE lo
  IN IF x < 0 THEN 0 - (n * 100) ELSE n * 100

\* Math.max(0, Math.min(10, parseFloat(score.toFixed(2)))) on a JS value:
\* NaN propagates through toFixed, parseFloat, Math.min and Math.max.
ClampScore(s) ==
  IF ~IsNum(s) THEN NaN
  ELSE LET f == ToFixed2(s.v, Unit, TRUE)
       IN Num(IF f > 10 * Unit THEN 10 * Unit ELSE IF f < 0 THEN 0 ELSE f)

----------------------------------------------------------------------------
(* config.scoring                                                          *)

\* weights in hundredths (0.30 -> 30), thresholds in score units
ConfigWeights == [tokenomics |-> 30, liquidity |-> 25, social |-> 20, onchain |-> 25]
ConfigThresholds == [green |-> 7 * Unit, yellow |-> 5 * Unit]

Components == {"tokenomics", "liquidity", "social", "onchain"}

----------------------------------------------------------------------------
(* ScoringEngine                                                           *)

\* scores: component -> integer score units; w: the engine's weights.
\* The weighted sum is in units of 1e-6 and toFixed(2) rounds it.
\* variant: the social component weighted with the onchain weight
calculateOverallScore_misweighted(scores, w, tieUp) ==
  ToFixed2(scores.tokenomics * w.tokenomics + scores.liquidity * w.liquidity
           + scores.social * w.onchain + scores.onchain * w.onchain,
           Unit * 100, tieUp)

calculateOverallScore(scores, w, tieUp) ==
  ToFixed2(scores.tokenomics * w.tokenomics + scores.liquidity * w.liquidity
           + scores.social * w.social + scores.onchain * w.onchain,
           Unit * 100, tieUp)

\* variant: strict comparison at the green threshold
classifyScore_strict(score) ==
  IF score > ConfigThresholds.green THEN "GREEN"
  ELSE IF score >= ConfigThresholds.yellow THEN "YELLOW"
  ELSE "RED"

classifyScore(score) ==
  IF score >= ConfigThresholds.green THEN "GREEN"
  ELSE IF score >= ConfigThresholds.yellow THEN "YELLOW"
  ELSE "RED"

scoreTokenomics(coinData) ==
  LET d1 == IF RatioGT(coinData.circulating_supply, coinData.total_supply, 7, 10)
              THEN [d |-> 20000, f |-> "High circulating ratio"]
            ELSE IF RatioGT(coinData.circulating_supply, coinData.total_supply, 4, 10)
              THEN [d |-> 10000, f |-> "Moderate circulating ratio"]
            ELSE [d |-> -10000, f |-> "Low circulating ratio"]
      d2 == IF Truthy(coinData.max_supply) /\ JsGT(coinData.max_supply, 0)
              THEN [d |-> 10000, f |-> "Fixed max supply"]
            ELSE [d |-> -5000, f |-> "No max supply"]
      fdv == JsMul(coinData.price_usd, coinData.total_supply)
      d3 == IF RatioLT(fdv, coinData.market_cap, 3, 2)
              THEN [d |-> 15000, f |-> "Low FDV/MC ratio"]
            ELSE IF RatioLT(fdv, coinData.market_cap, 3, 1)
              THEN [d |-> 5000, f |-> "Moderate FDV/MC ratio"]
            ELSE [d |-> -10000, f |-> "High FDV/MC ratio"]
  IN [threw |-> FALSE,
      score |-> ClampScore(Num(5 * Unit + d1.d + d2.d + d3.d)),
      flags |-> <<d1.f, d2.f, d3.f>>]

\* coinData.liquidity is an object (k = "obj") or undefined; reading a
\* property of undefined, and calling toFixed on undefined or null, throw a
\* TypeError.
Threw == [threw |-> TRUE, score |-> Undefined, flags |-> <<>>]

scoreLiquidity(coinData) ==
  LET liquidity == coinData.liquidity IN
  IF liquidity.k # "obj" THEN Threw
  ELSE
  LET volumeRatio == liquidity.volume_to_market_cap
      d1 == IF JsGT(volumeRatio, 10) THEN [d |-> 25000, f |-> "High volume/mcap ratio"]
            ELSE IF JsGT(volumeRatio, 5) THEN [d |-> 15000, f |-> "Good volume/mcap ratio"]
            ELSE IF JsGT(volumeRatio, 2) THEN [d |-> 5000, f |-> "Moderate volume/mcap ratio"]
            ELSE [d |-> -10000, f |-> "Low volume/mcap ratio"]
      bv == liquidity.binance_volume
      tv == liquidity.total_volume
      d2 == IF RatioGT(bv, tv, 3, 10) /\ RatioLT(bv, tv, 8, 10)
              THEN [d |-> 20000, f |-> "Healthy Binance volume"]
            ELSE IF RatioGE(bv, tv, 8, 10)
              THEN [d |-> 10000, f |-> "High Binance dominance"]
            ELSE IF RatioGT(bv, tv, 1, 10)
              THEN [d |-> 5000, f |-> "Low Binance volume"]
            ELSE [d |-> -15000, f |-> "Very low Binance volume"]
      d3 == IF JsGT(tv, 50000000) THEN [d |-> 10000, f |-> <<"High absolute volume">>]
            ELSE IF JsGT(tv, 10000000) THEN [d |-> 5000, f |-> <<"Moderate volume">>]
            ELSE IF JsLT(tv, 1000000) THEN [d |-> -10000, f |-> <<"Low volume">>]
            ELSE [d |-> 0, f |-> <<>>]
  IN IF volumeRatio.k \in {"undef", "null"} THEN Threw
     ELSE [threw |-> FALSE,
           score |-> ClampScore(Num(5 * Unit + d1.d + d2.d + d3.d)),
           flags |-> <<d1.f, d2.f>> \o d3.f]

\* Sub-scores are on the 0-100 scale, so (c*0.4 + e*0.3 + d*0.3) / 100 * 10
\* is (4c + 3e + 3d) / 100 points.
\* variant: the three sub-scores weighted equally (in thirds of a point)
socialBlend_even(socialData) ==
  ((10 * (OrZero(socialData.community_score)
          + OrZero(socialData.engagement_score)
          + OrZero(socialData.developer_score))) \div 3) * (Unit \div 100)

socialBlend(socialData) ==
  (4 * OrZero(socialData.community_score)
   + 3 * OrZero(socialData.engagement_score)
   + 3 * OrZero(socialData.developer_score)) * (Unit \div 100)

\* socialData.data_source is a string; platform objects are present or null.
scoreSocial(socialData) ==
  LET isEnhanced == socialData.data_source = "real (enhanced)" IN
  IF isEnhanced THEN
    LET blend == socialBlend(socialData)
        tw == IF socialData.twitter.k = "obj"
              THEN (IF JsGT(socialData.twitter.followers, 100000)
                    THEN <<"Strong Twitter presence">> ELSE <<>>)
                   \o (IF socialData.twitter.verified
                       THEN <<"Verified Twitter account">> ELSE <<>>)
              ELSE <<>>
        rd == IF socialData.reddit.k = "obj"
              THEN (IF JsGT(socialData.reddit.subscribers, 50000)
                    THEN <<"Large Reddit community">> ELSE <<>>)
                   \o (IF JsGT(socialData.reddit.activity_ratio, 2)
                       THEN <<"High Reddit activity ratio">> ELSE <<>>)
              ELSE <<>>
        gh == IF socialData.github.k = "obj"
              THEN (IF JsLT(socialData.github.days_since_last_commit, 7)
                    THEN <<"Active development">> ELSE <<>>)
                   \o (IF JsGT(socialData.github.stars, 1000)
                       THEN <<"Popular GitHub repo">> ELSE <<>>)
              ELSE <<>>
        sent == IF socialData.sentiment = "bullish"
                  THEN [d |-> 5000, f |-> <<"Bullish community sentiment">>]
                ELSE IF socialData.sentiment = "bearish"
                  THEN [d |-> -5000, f |-> <<"Bearish community sentiment">>]
                ELSE [d |-> 0, f |-> <<>>]
    IN [threw |-> FALSE,
        score |-> ClampScore(Num(blend + sent.d)),
        flags |-> tw \o rd \o gh \o sent.f,
        path |-> "enhanced"]
  ELSE
    LET g == socialData.galaxy_score
        \* score += (galaxy_score / 100) * 4 - 2
        s0 == IF IsNum(ToNum(g))
              THEN Num(5 * Unit + 4 * ToNum(g).v * (Unit \div 100) - 2 * Unit)
              ELSE NaN
        f0 == IF JsGE(g, 70) THEN "Strong social presence"
              ELSE IF JsGE(g, 50) THEN "Moderate social presence"
              ELSE "Weak social presence"
        d1 == IF JsLE(socialData.alt_rank, 100)
                THEN [d |-> 20000, f |-> <<"Top 100 social rank">>]
              ELSE IF JsLE(socialData.alt_rank, 500)
                THEN [d |-> 10000, f |-> <<"Top 500 social rank">>]
              ELSE IF JsGT(socialData.alt_rank, 2000)
                THEN [d |-> -10000, f |-> <<"Low social rank">>]
              ELSE [d |-> 0, f |-> <<>>]
        d2 == IF socialData.sentiment = "bullish"
                THEN [d |-> 10000, f |-> <<"Bullish sentiment">>]
              ELSE IF socialData.sentiment = "bearish"
                THEN [d |-> -5000, f |-> <<"Bearish sentiment">>]
              ELSE [d |-> 0, f |-> <<>>]
        d3 == IF JsGT(socialData.social_volume_24h, 20000)
                THEN [d |-> 10000, f |-> <<"High social volume">>]
              ELSE IF JsLT(socialData.social_volume_24h, 5000)
                THEN [d |-> -5000, f |-> <<"Low social volume">>]
              ELSE [d |-> 0, f |-> <<>>]
    IN [threw |-> FALSE,
        score |-> ClampScore(JsAdd(s0, d1.d + d2.d + d3.d)),
        flags |-> <<f0>> \o d1.f \o d2.f \o d3.f,
        path |-> "legacy"]

----------------------------------------------------------------------------
(* ScoringEngine.scoreOnchain                                              *)
(* Quotients are compared by cross multiplication in exact arithmetic.     *)

RECURSIVE SumSeq(_)
SumSeq(s) == IF s = <<>> THEN 0 ELSE Head(s) + SumSeq(Tail(s))

RECURSIVE MaxSeq(_)
MaxSeq(s) == IF Len(s) = 1 THEN s[1]
             ELSE LET m == MaxSeq(Tail(s)) IN IF s[1] > m THEN s[1] ELSE m

RECURSIVE MinSeq(_)
MinSeq(s) == IF Len(s) = 1 THEN s[1]
             ELSE LET m == MinSeq(Tail(s)) IN IF s[1] < m THEN s[1] ELSE m

\* Array.prototype.filter with the predicate h > 0
RECURSIVE FilterPositive(_)
FilterPositive(s) ==
  IF s = <<>> THEN <<>>
  ELSE (IF Head(s) > 0 THEN <<Head(s)>> ELSE <<>>) \o FilterPositive(Tail(s))

\* One scoring step: score delta and the entries pushed on flags, warnings
\* and redFlags.
Step(d, f, w, r) == [d |-> d, f |-> f, w |-> w, r |-> r]
NoStep == Step(0, <<>>, <<>>, <<>>)

\* variant: inclusive comparison at the mega threshold
classifyTier_inclusive(totalHolders) ==
  IF totalHolders >= 1000000 THEN "mega"
  ELSE IF totalHolders > 100000 THEN "large"
  ELSE IF totalHolders > 10000 THEN "mid"
  ELSE IF totalHolders > 1000 THEN "small"
  ELSE "micro"

classifyTier(totalHolders) ==
  IF totalHolders > 1000000 THEN "mega"
  ELSE IF totalHolders > 100000 THEN "large"
  ELSE IF totalHolders > 10000 THEN "mid"
  ELSE IF totalHolders > 1000 THEN "small"
  ELSE "micro"

\* tier.charAt(0).toUpperCase() + tier.slice(1) + " Cap"
TierLabel(tier) ==
  CASE tier = "mega" -> "Mega Cap"
    [] tier = "large" -> "Large Cap"
    [] tier = "mid" -> "Mid Cap"
    [] tier = "small" -> "Small Cap"
    [] tier = "micro" -> "Micro Cap"
    [] OTHER -> "Unknown Cap"

\* variant: the largest chain instead of the sum of the chains
aggregateTotals_max(onchainData) ==
  LET chainList == onchainData.chains
      rootHolders == OrZero(onchainData.total_holders)
      useChains == Len(chainList) > 0 /\ rootHolders = 0
  IN [aggregated |-> useChains,
      totalHolders |->
        IF useChains
        THEN MaxSeq([i \in DOMAIN chainList |-> OrZero(chainList[i].total_holders)])
        ELSE rootHolders,
      totalActive7d |->
        IF useChains
        THEN MaxSeq([i \in DOMAIN chainList |-> OrZero(chainList[i].estimated_active_7d)])
        ELSE OrZero(onchainData.active_addresses_7d),
      totalActive30d |->
        IF useChains
        THEN MaxSeq([i \in DOMAIN chainList |-> OrZero(chainList[i].estimated_active_30d)])
        ELSE OrZero(onchainData.active_addresses_30d)]

\* totals after the optional aggregation from the chain records
aggregateTotals(onchainData) ==
  LET chainList == onchainData.chains
      rootHolders == OrZero(onchainData.total_holders)
      useChains == Len(chainList) > 0 /\ rootHolders = 0
  IN [aggregated |-> useChains,
      totalHolders |->
        IF useChains
        THEN SumSeq([i \in DOMAIN chainList |-> OrZero(chainList[i].total_holders)])
        ELSE rootHolders,
      totalActive7d |->
        IF useChains
        THEN SumSeq([i \in DOMAIN chainList |-> OrZero(chainList[i].estimated_active_7d)])
        ELSE OrZero(onchainData.active_addresses_7d),
      totalActive30d |->
        IF useChains
        THEN SumSeq([i \in DOMAIN chainList |-> OrZero(chainList[i].estimated_active_30d)])
        ELSE OrZero(onchainData.active_addresses_30d)]

holderBaseStep(tier, totalHolders) ==
  IF tier = "mega" THEN Step(30000, <<"Mega cap">>, <<>>, <<>>)
  ELSE IF tier = "large" THEN
    IF totalHolders > 500000 THEN Step(28000, <<"Massive adoption">>, <<>>, <<>>)
    ELSE IF totalHolders > 250000 THEN Step(25000, <<"Very large community">>, <<>>, <<>>)
    ELSE Step(22000, <<"Large cap">>, <<>>, <<>>)
  ELSE IF tier = "mid" THEN
    IF totalHolders > 50000 THEN Step(20000, <<"Strong mid cap">>, <<>>, <<>>)
    ELSE IF totalHolders > 25000 THEN Step(16000, <<"Good mid cap">>, <<>>, <<>>)
    ELSE Step(12000, <<"Mid cap">>, <<>>, <<>>)
  ELSE IF tier = "small" THEN
    IF totalHolders > 5000 THEN Step(10000, <<"Upper small cap">>, <<>>, <<>>)
    ELSE IF totalHolders > 2500 THEN Step(7000, <<"Small cap">>, <<>>, <<>>)
    ELSE Step(4000, <<"Lower small cap">>, <<>>, <<>>)
  ELSE
    IF totalHolders > 500 THEN Step(2000, <<"Established micro cap">>, <<>>, <<>>)
    ELSE IF totalHolders > 250 THEN Step(0, <<"Micro cap">>, <<>>, <<>>)
    ELSE IF totalHolders > 100 THEN Step(-3000, <<>>, <<"Very early stage">>, <<>>)
    ELSE IF totalHolders > 50 THEN Step(-8000, <<>>, <<"Extremely early">>, <<>>)
    ELSE IF totalHolders > 0 THEN Step(-15000, <<>>, <<>>, <<"Pre-launch stage">>)
    ELSE NoStep

\* chainList.forEach: per-chain concentration and Gini entries (no delta).
\* gini_coefficient is carried in hundredths.
chainEntries(chain) ==
  LET chainConc == OrZero(chain.top_10_concentration)
      c == IF chainConc > 0
           THEN (IF chainConc > 85 THEN Step(0, <<>>, <<>>, <<"chain: EXTREME concentration">>)
                 ELSE IF chainConc > 75 THEN Step(0, <<>>, <<"chain: Very high concentration">>, <<>>)
                 ELSE NoStep)
           ELSE NoStep
      g == IF JsGT(chain.gini_coefficient, 0)
           THEN (IF JsGT(chain.gini_coefficient, 90) THEN Step(0, <<>>, <<>>, <<"chain: Gini extremely unequal">>)
                 ELSE IF JsGT(chain.gini_coefficient, 80) THEN Step(0, <<>>, <<"chain: Gini very unequal">>, <<>>)
                 ELSE NoStep)
           ELSE NoStep
  IN Step(0, <<>>, c.w \o g.w, c.r \o g.r)

RECURSIVE chainListEntries(_)
chainListEntries(chainList) ==
  IF chainList = <<>> THEN NoStep
  ELSE LET h == chainEntries(Head(chainList))
           t == chainListEntries(Tail(chainList))
       IN Step(0, <<>>, h.w \o t.w, h.r \o t.r)

\* worstConcentration (initially 0) and bestConcentration (initially 100)
\* over the chains whose concentration is > 0
RECURSIVE worstConcentration(_)
worstConcentration(chainList) ==
  IF chainList = <<>> THEN 0
  ELSE LET c == OrZero(Head(chainList).top_10_concentration)
           t == worstConcentration(Tail(chainList))
       IN IF c > 0 /\ c > t THEN c ELSE t

RECURSIVE bestConcentration(_)
bestConcentration(chainList) ==
  IF chainList = <<>> THEN 100
  ELSE LET c == OrZero(Head(chainList).top_10_concentration)
           t == bestConcentration(Tail(chainList))
       IN IF c > 0 /\ c < t THEN c ELSE t

\* variant: the root average preferred to the worst chain
concentrationToUse_average(onchainData) ==
  LET worst == worstConcentration(onchainData.chains)
  IN IF OrZero(onchainData.weighted_concentration) > 0
     THEN OrZero(onchainData.weighted_concentration) ELSE worst

concentrationToUse(onchainData) ==
  LET worst == worstConcentration(onchainData.chains)
  IN IF worst > 0 THEN worst ELSE OrZero(onchainData.weighted_concentration)

concentrationThresholds(tier) ==
  IF tier \in {"mega", "large"}
    THEN [excellent |-> 20, good |-> 35, moderate |-> 50, high |-> 65, extreme |-> 80]
  ELSE IF tier = "mid"
    THEN [excellent |-> 25, good |-> 40, moderate |-> 55, high |-> 70, extreme |-> 85]
  ELSE [excellent |-> 30, good |-> 45, moderate |-> 60, high |-> 75, extreme |-> 90]

concentrationStep(tier, conc) ==
  LET thresholds == concentrationThresholds(tier) IN
  IF ~(conc > 0) THEN NoStep
  ELSE IF conc < thresholds.excellent THEN Step(18000, <<"Excellent distribution">>, <<>>, <<>>)
  ELSE IF conc < thresholds.good THEN Step(12000, <<"Good distribution">>, <<>>, <<>>)
  ELSE IF conc < thresholds.moderate THEN Step(5000, <<"Fair distribution">>, <<>>, <<>>)
  ELSE IF conc < thresholds.high THEN Step(-4000, <<>>, <<"Moderate concentration risk">>, <<>>)
  ELSE IF conc < thresholds.extreme THEN Step(-12000, <<>>, <<"High concentration">>, <<>>)
  ELSE Step(-22000, <<>>, <<>>, <<"EXTREME concentration">>)

activeThresholds(tier) ==
  IF tier \in {"mega", "large"} THEN [excellent |-> 15, good |-> 8, fair |-> 4, low |-> 2]
  ELSE IF tier = "mid" THEN [excellent |-> 20, good |-> 10, fair |-> 5, low |-> 2]
  ELSE [excellent |-> 25, good |-> 12, fair |-> 6, low |-> 3]

activeAbsoluteStep(totalActive7d) ==
  IF totalActive7d > 100000 THEN Step(25000, <<"Massive activity">>, <<>>, <<>>)
  ELSE IF totalActive7d > 50000 THEN Step(22000, <<"Very high activity">>, <<>>, <<>>)
  ELSE IF totalActive7d > 20000 THEN Step(18000, <<"High activity">>, <<>>, <<>>)
  ELSE IF totalActive7d > 10000 THEN Step(15000, <<"Strong activity">>, <<>>, <<>>)
  ELSE IF totalActive7d > 5000 THEN Step(12000, <<"Good activity">>, <<>>, <<>>)
  ELSE IF totalActive7d > 1000 THEN Step(8000, <<"Moderate activity">>, <<>>, <<>>)
  ELSE IF totalActive7d > 500 THEN Step(4000, <<"Fair activity">>, <<>>, <<>>)
  ELSE IF totalActive7d > 100 THEN Step(1000, <<"Low activity">>, <<>>, <<>>)
  ELSE IF totalActive7d > 20 THEN Step(-3000, <<>>, <<"Very low activity">>, <<>>)
  ELSE IF totalActive7d > 5 THEN Step(-7000, <<>>, <<"Minimal activity">>, <<>>)
  ELSE IF totalActive7d > 0 THEN Step(-12000, <<>>, <<>>, <<"Near-zero activity">>)
  ELSE NoStep

\* activeRatio7d = totalHolders > 0 ? (totalActive7d / totalHolders) * 100 : 0
\* activeRatio7d >= t  <=>  totalActive7d * 100 >= t * totalHolders
activeRatioPositive(totalHolders, totalActive7d) ==
  totalHolders > 0 /\ totalActive7d > 0

activeRatioGE(totalHolders, totalActive7d, t) ==
  IF totalHolders > 0 THEN totalActive7d * 100 >= t * totalHolders ELSE 0 >= t

\* activeRatio7d < p / q
activeRatioLT(totalHolders, totalActive7d, p, q) ==
  IF totalHolders > 0 THEN totalActive7d * 100 * q < p * totalHolders ELSE 0 < p

activeRatioStep(tier, totalHolders, totalActive7d) ==
  LET t == activeThresholds(tier) IN
  IF ~activeRatioPositive(totalHolders, totalActive7d) THEN NoStep
  ELSE IF activeRatioGE(totalHolders, totalActive7d, t.excellent)
    THEN Step(15000, <<"Excellent engagement">>, <<>>, <<>>)
  ELSE IF activeRatioGE(totalHolders, totalActive7d, t.good)
    THEN Step(10000, <<"Strong engagement">>, <<>>, <<>>)
  ELSE IF activeRatioGE(totalHolders, totalActive7d, t.fair)
    THEN Step(5000, <<"Good engagement">>, <<>>, <<>>)
  ELSE IF activeRatioGE(totalHolders, totalActive7d, t.low)
    THEN Step(0, <<"Fair engagement">>, <<>>, <<>>)
  ELSE IF activeRatioGE(totalHolders, totalActive7d, 1)
    THEN Step(-2000, <<>>, <<"Low engagement">>, <<>>)
  ELSE Step(-6000, <<>>, <<"Very low engagement">>, <<>>)

\* retention = (totalActive7d / totalActive30d) * 100
retentionStep(totalActive7d, totalActive30d) ==
  IF totalActive7d > 0 /\ totalActive30d > 0 THEN
    IF totalActive7d * 100 > 60 * totalActive30d THEN Step(18000, <<"Outstanding retention">>, <<>>, <<>>)
    ELSE IF totalActive7d * 100 > 45 * totalActive30d THEN Step(14000, <<"Excellent retention">>, <<>>, <<>>)
    ELSE IF totalActive7d * 100 > 30 * totalActive30d THEN Step(10000, <<"Strong retention">>, <<>>, <<>>)
    ELSE IF totalActive7d * 100 > 20 * totalActive30d THEN Step(6000, <<"Good retention">>, <<>>, <<>>)
    ELSE IF totalActive7d * 100 > 15 * totalActive30d THEN Step(2000, <<"Fair retention">>, <<>>, <<>>)
    ELSE IF totalActive7d * 100 > 10 * totalActive30d THEN Step(0, <<>>, <<"Moderate retention">>, <<>>)
    ELSE IF totalActive7d * 100 > 5 * totalActive30d THEN Step(-3000, <<>>, <<"Low retention">>, <<>>)
    ELSE Step(-7000, <<>>, <<"Poor retention">>, <<>>)
  ELSE IF totalActive30d > 0 THEN Step(0, <<"30-day base">>, <<>>, <<>>)
  ELSE NoStep

transfersStep(totalTransfers24h) ==
  IF totalTransfers24h > 20000 THEN Step(15000, <<"Very high tx">>, <<>>, <<>>)
  ELSE IF totalTransfers24h > 10000 THEN Step(12000, <<"High tx volume">>, <<>>, <<>>)
  ELSE IF totalTransfers24h > 5000 THEN Step(9000, <<"Strong tx">>, <<>>, <<>>)
  ELSE IF totalTransfers24h > 1000 THEN Step(6000, <<"Good tx">>, <<>>, <<>>)
  ELSE IF totalTransfers24h > 500 THEN Step(3000, <<"Moderate tx">>, <<>>, <<>>)
  ELSE IF totalTransfers24h > 100 THEN Step(1000, <<"Fair tx">>, <<>>, <<>>)
  ELSE IF totalTransfers24h > 50 THEN Step(0, <<>>, <<"Low tx">>, <<>>)
  ELSE IF totalTransfers24h > 10 THEN Step(-3000, <<>>, <<"Very low tx">>, <<>>)
  ELSE IF totalTransfers24h > 0 THEN Step(-7000, <<>>, <<"Minimal tx">>, <<>>)
  ELSE NoStep

\* txPerUser = totalTransfers7d / totalActive7d
txPerUserStep(totalActive7d, totalTransfers7d) ==
  IF totalActive7d > 0 /\ totalTransfers7d > 0 THEN
    IF totalTransfers7d > 20 * totalActive7d THEN Step(6000, <<"High user activity">>, <<>>, <<>>)
    ELSE IF totalTransfers7d > 10 * totalActive7d THEN Step(3000, <<"Good activity">>, <<>>, <<>>)
    ELSE IF totalTransfers7d < 2 * totalActive7d THEN Step(0, <<>>, <<"Low tx per user">>, <<>>)
    ELSE NoStep
  ELSE NoStep

multichainStep(isMultichain, chainCount) ==
  IF isMultichain /\ chainCount > 1 THEN
    IF chainCount >= 6 THEN Step(15000, <<"Wide deployment">>, <<>>, <<>>)
    ELSE IF chainCount >= 4 THEN Step(12000, <<"Strong multi-chain">>, <<>>, <<>>)
    ELSE IF chainCount >= 3 THEN Step(8000, <<"Multi-chain">>, <<>>, <<>>)
    ELSE Step(4000, <<"Cross-chain">>, <<>>, <<>>)
  ELSE NoStep

\* balance = minH / maxH over the chains with holders > 0
chainBalanceStep(isMultichain, chainCount, chainList) ==
  IF isMultichain /\ chainCount > 1 /\ Len(chainList) > 1 THEN
    LET holderDist == FilterPositive([i \in DOMAIN chainList |-> OrZero(chainList[i].total_holders)])
    IN IF Len(holderDist) > 1 THEN
         LET maxH == MaxSeq(holderDist)
             minH == MinSeq(holderDist)
         IN IF 10 * minH > 4 * maxH THEN Step(6000, <<"Well-balanced across chains">>, <<>>, <<>>)
            ELSE IF 10 * minH > 2 * maxH THEN Step(3000, <<"Fairly distributed across chains">>, <<>>, <<>>)
            ELSE IF 100 * minH < 5 * maxH THEN Step(0, <<>>, <<"Highly concentrated on one chain">>, <<>>)
            ELSE NoStep
       ELSE NoStep
  ELSE NoStep

growthStep(growth) ==
  IF growth.k = "undef" THEN NoStep
  ELSE IF JsGT(growth, 100) THEN Step(25000, <<"Explosive growth">>, <<>>, <<>>)
  ELSE IF JsGT(growth, 50) THEN Step(20000, <<"Very strong growth">>, <<>>, <<>>)
  ELSE IF JsGT(growth, 25) THEN Step(15000, <<"Strong growth">>, <<>>, <<>>)
  ELSE IF JsGT(growth, 10) THEN Step(10000, <<"Good growth">>, <<>>, <<>>)
  ELSE IF JsGT(growth, 5) THEN Step(5000, <<"Positive growth">>, <<>>, <<>>)
  ELSE IF JsGT(growth, 0) THEN Step(2000, <<"Slight growth">>, <<>>, <<>>)
  ELSE IF JsGT(growth, -5) THEN Step(0, <<>>, <<"Minor decline">>, <<>>)
  ELSE IF JsGT(growth, -15) THEN Step(-6000, <<>>, <<"Declining">>, <<>>)
  ELSE IF JsGT(growth, -30) THEN Step(-15000, <<>>, <<>>, <<"Sharp decline">>)
  ELSE Step(-25000, <<>>, <<>>, <<"COLLAPSING">>)

tvlStep(tvl) ==
  IF tvl.k = "undef" THEN NoStep
  ELSE IF JsGT(tvl, 50) THEN Step(20000, <<"TVL surging">>, <<>>, <<>>)
  ELSE IF JsGT(tvl, 25) THEN Step(15000, <<"TVL growing strongly">>, <<>>, <<>>)
  ELSE IF JsGT(tvl, 10) THEN Step(10000, <<"TVL increasing">>, <<>>, <<>>)
  ELSE IF JsGT(tvl, 0) THEN Step(4000, <<"TVL up">>, <<>>, <<>>)
  ELSE IF JsGT(tvl, -10) THEN Step(0, <<>>, <<"TVL stable">>, <<>>)
  ELSE IF JsGT(tvl, -25) THEN Step(-6000, <<>>, <<"TVL declining">>, <<>>)
  ELSE IF JsGT(tvl, -40) THEN Step(-15000, <<>>, <<"TVL dropping">>, <<>>)
  ELSE Step(-25000, <<>>, <<>>, <<"TVL CRASH">>)

dauMauStep(dau_mau) ==
  IF dau_mau.k = "undef" THEN NoStep
  ELSE IF JsGT(dau_mau, 50) THEN Step(20000, <<"Outstanding stickiness">>, <<>>, <<>>)
  ELSE IF JsGT(dau_mau, 40) THEN Step(15000, <<"Excellent DAU/MAU">>, <<>>, <<>>)
  ELSE IF JsGT(dau_mau, 30) THEN Step(10000, <<"Strong engagement DAU/MAU">>, <<>>, <<>>)
  ELSE IF JsGT(dau_mau, 20) THEN Step(6000, <<"Good engagement DAU/MAU">>, <<>>, <<>>)
  ELSE IF JsGT(dau_mau, 12) THEN Step(2000, <<"Fair engagement DAU/MAU">>, <<>>, <<>>)
  ELSE IF JsGT(dau_mau, 5) THEN Step(0, <<>>, <<"Moderate engagement DAU/MAU">>, <<>>)
  ELSE Step(-5000, <<>>, <<"Low engagement DAU/MAU">>, <<>>)

\* chains[onchainData.chain_info?.primary]: the chain record stored under
\* the primary key, or <<>> when there is none
primaryChain(onchainData) ==
  IF onchainData.chain_info.k # "obj" THEN <<>>
  ELSE SelectSeq(onchainData.chains, LAMBDA c : c.key = onchainData.chain_info.primary)

dataQualityStep(onchainData) ==
  LET found == primaryChain(onchainData) IN
  IF found = <<>> THEN [s |-> NoStep, q |-> "unknown"]
  ELSE LET reliability == found[1].reliability
           confidence == found[1].activity_confidence
       IN IF reliability = "high" /\ confidence = "high"
            THEN [s |-> Step(0, <<"High data quality">>, <<>>, <<>>), q |-> "high"]
          ELSE IF reliability = "high" \/ confidence = "high"
            THEN [s |-> NoStep, q |-> "medium-high"]
          ELSE IF reliability = "medium" \/ confidence = "medium"
            THEN [s |-> Step(0, <<>>, <<"Medium data quality">>, <<>>), q |-> "medium"]
          ELSE [s |-> Step(-5000, <<>>, <<"Low data quality">>, <<>>), q |-> "low"]

\* variant: the ghost rule from fewer than 20 holders
ghostTokenStep_lenient(totalHolders, totalActive7d, totalTransfers24h) ==
  IF totalHolders < 20 /\ totalActive7d < 3
    THEN Step(-30000, <<>>, <<>>, <<"GHOST TOKEN">>)
  ELSE IF totalHolders < 100 /\ totalActive7d < 5 /\ totalTransfers24h < 3
    THEN Step(-20000, <<>>, <<>>, <<"Near-dead">>)
  ELSE NoStep

ghostTokenStep(totalHolders, totalActive7d, totalTransfers24h) ==
  IF totalHolders < 30 /\ totalActive7d < 3
    THEN Step(-30000, <<>>, <<>>, <<"GHOST TOKEN">>)
  ELSE IF totalHolders < 100 /\ totalActive7d < 5 /\ totalTransfers24h < 3
    THEN Step(-20000, <<>>, <<>>, <<"Near-dead">>)
  ELSE NoStep

whaleLimits(tier) ==
  IF tier = "micro" THEN [critical |-> 95, high |-> 85]
  ELSE IF tier = "small" THEN [critical |-> 90, high |-> 80]
  ELSE [critical |-> 85, high |-> 75]

\* variant: the tier limits alone, without the holder counts
whaleStep_tierOnly(tier, conc, totalHolders) ==
  IF conc > whaleLimits(tier).critical
    THEN Step(-25000, <<>>, <<>>, <<"WHALE CONTROLLED">>)
  ELSE IF conc > whaleLimits(tier).high
    THEN Step(-15000, <<>>, <<>>, <<"High whale dominance risk">>)
  ELSE NoStep

whaleStep(tier, conc, totalHolders) ==
  IF conc > whaleLimits(tier).critical /\ totalHolders < 1000
    THEN Step(-25000, <<>>, <<>>, <<"WHALE CONTROLLED">>)
  ELSE IF conc > whaleLimits(tier).high /\ totalHolders < 2000
    THEN Step(-15000, <<>>, <<>>, <<"High whale dominance risk">>)
  ELSE NoStep

abandonedStep(tier, totalHolders, totalActive7d) ==
  IF tier # "micro" /\ totalHolders > 2000 /\ activeRatioLT(totalHolders, totalActive7d, 1, 2)
    THEN Step(-20000, <<>>, <<>>, <<"LIKELY ABANDONED">>)
  ELSE IF tier # "micro" /\ totalHolders > 5000 /\ activeRatioLT(totalHolders, totalActive7d, 1, 1)
    THEN Step(-12000, <<>>, <<"Possibly abandoned">>, <<>>)
  ELSE NoStep

ratingOf(finalScore) ==
  IF finalScore >= 85000 THEN "Excellent"
  ELSE IF finalScore >= 75000 THEN "Very Good"
  ELSE IF finalScore >= 65000 THEN "Good"
  ELSE IF finalScore >= 55000 THEN "Above Average"
  ELSE IF finalScore >= 45000 THEN "Fair"
  ELSE IF finalScore >= 35000 THEN "Below Average"
  ELSE IF finalScore >= 25000 THEN "Poor"
  ELSE "Very Poor"

\* The steps of scoreOnchain in source order.
onchainSteps(onchainData) ==
  LET agg == aggregateTotals(onchainData)
      totalHolders == agg.totalHolders
      totalActive7d == agg.totalActive7d
      totalTransfers24h == OrZero(onchainData.total_transfers_24h)
      totalTransfers7d == OrZero(onchainData.total_transfers_7d)
      chainList == onchainData.chains
      isMultichain == onchainData.chain_info.k = "obj" /\ onchainData.chain_info.is_multichain
      chainCount == IF Truthy(onchainData.chain_count) THEN onchainData.chain_count.v
                    ELSE Len(chainList)
      tier == classifyTier(totalHolders)
      conc == concentrationToUse(onchainData)
  IN << IF agg.aggregated THEN Step(0, <<"Multi-chain aggregation">>, <<>>, <<>>) ELSE NoStep,
        holderBaseStep(tier, totalHolders),
        chainListEntries(chainList),
        concentrationStep(tier, conc),
        activeAbsoluteStep(totalActive7d),
        activeRatioStep(tier, totalHolders, totalActive7d),
        retentionStep(totalActive7d, agg.totalActive30d),
        transfersStep(totalTransfers24h),
        txPerUserStep(totalActive7d, totalTransfers7d),
        multichainStep(isMultichain, chainCount),
        chainBalanceStep(isMultichain, chainCount, chainList),
        growthStep(onchainData.address_growth_mom),
        tvlStep(onchainData.tvl_change_7d),
        dauMauStep(onchainData.daily_active_ratio),
        dataQualityStep(onchainData).s,
        ghostTokenStep(totalHolders, totalActive7d, totalTransfers24h),
        whaleStep(tier, conc, totalHolders),
        abandonedStep(tier, totalHolders, totalActive7d) >>

RECURSIVE ConcatField(_, _)
ConcatField(steps, fld) ==
  IF steps = <<>> THEN <<>> ELSE Head(steps)[fld] \o ConcatField(Tail(steps), fld)

\* the accumulator of a variant that clamps after every step
RECURSIVE ClampedSum(_, _)
ClampedSum(acc, deltas) ==
  IF deltas = <<>> THEN acc
  ELSE LET next == acc + Head(deltas)
       IN ClampedSum(IF next > 10 * Unit THEN 10 * Unit ELSE IF next < 0 THEN 0 ELSE next,
                     Tail(deltas))

\* variant: the score kept inside [0, 10] after every step
accumulateScore_clamped(deltas) == ClampedSum(5 * Unit, deltas)

\* let score = 5, then score += / score -= for every rule that applies
accumulateScore(deltas) == 5 * Unit + SumSeq(deltas)

scoreOnchain(onchainData) ==
  \* growth.toFixed / tvl.toFixed / dau_mau.toFixed on null throw a TypeError
  IF \/ onchainData.address_growth_mom.k = "null"
     \/ onchainData.tvl_change_7d.k = "null"
     \/ onchainData.daily_active_ratio.k = "null"
  THEN Threw
  ELSE
  LET agg == aggregateTotals(onchainData)
      steps == onchainSteps(onchainData)
      score == accumulateScore([i \in DOMAIN steps |-> steps[i].d])
      finalScore == ClampScore(Num(score))
      tier == classifyTier(agg.totalHolders)
  IN [threw |-> FALSE,
      score |-> finalScore,
      rating |-> ratingOf(finalScore.v),
      tier |-> TierLabel(tier),
      details |-> [total_holders |-> agg.totalHolders,
                   active_addresses_7d |-> agg.totalActive7d,
                   active_addresses_30d |-> agg.totalActive30d,
                   concentration |-> concentrationToUse(onchainData)],
      flags |-> ConcatField(steps, "f"),
      warnings |-> ConcatField(steps, "w"),
      red_flags |-> ConcatField(steps, "r"),
      data_quality |-> dataQualityStep(onchainData).q,
      \* totalHolders !== onchainData.total_holders
      aggregation_note |->
        IF ~IsNum(onchainData.total_holders)
           \/ agg.totalHolders # onchainData.total_holders.v
        THEN "Data aggregated from individual chains"
        ELSE "Using root-level data"]

\* OnChainEnhancedService.aggregateMultiChainMetrics over Object.values(chainMetrics)
aggregateMultiChainMetrics(chains) ==
  IF Len(chains) = 0 THEN [empty |-> TRUE]
  ELSE [empty |-> FALSE,
        total_holders |-> SumSeq([i \in DOMAIN chains |-> OrZero(chains[i].holders_count)]),
        active_addresses_7d |-> SumSeq([i \in DOMAIN chains |-> OrZero(chains[i].active_addresses_7d)]),
        active_addresses_30d |-> SumSeq([i \in DOMAIN chains |-> OrZero(chains[i].active_addresses_30d)]),
        total_transfers_24h |-> SumSeq([i \in DOMAIN chains |-> OrZero(chains[i].transfers_24h)]),
        total_transfers_7d |-> SumSeq([i \in DOMAIN chains |-> OrZero(chains[i].transfers_7d)]),
        weighted_concentration |-> SumSeq([i \in DOMAIN chains |-> OrZero(chains[i].top_10_concentration)]),
        chain_count |-> Len(chains)]

----------------------------------------------------------------------------
(* Inputs of the scoring operations                                        *)

Nums(S) == {Num(n) : n \in S}

\* --- scoreTokenomics
TokenomicsInputs ==
  [circulating_supply : {Undefined} \cup Nums({-10, 0, 40, 41, 70, 71, 100}),
   total_supply : {Undefined} \cup Nums({-100, 0, 100}),
   max_supply : {Null, Undefined} \cup Nums({-1, 0, 100}),
   price_usd : {Undefined} \cup Nums({0, 1, 2, 3}),
   market_cap : {Undefined} \cup Nums({0, 100, 200})]

\* --- scoreLiquidity
LiquidityObjects ==
  [k : {"obj"},
   volume_to_market_cap : {Undefined, NaN} \cup Nums({-1, 0, 2, 3, 5, 6, 10, 11}),
   binance_volume : {Undefined} \cup Nums({0, 5, 10, 11, 30, 31, 79, 80, 100}),
   total_volume : {Undefined} \cup Nums({0, 100, 1000000, 10000001, 50000001})]

LiquidityInputs == [liquidity : {Undefined} \cup LiquidityObjects]

\* --- scoreSocial
SubScores == {Undefined, NaN} \cup Nums({-20, 0, 50, 100, 300})
Sentiments == {"bullish", "neutral", "bearish"}

TwitterObjects ==
  {Null, [k |-> "obj", followers |-> Num(100000), verified |-> FALSE],
         [k |-> "obj", followers |-> Num(100001), verified |-> TRUE]}
RedditObjects ==
  {Null, [k |-> "obj", subscribers |-> Num(50001), activity_ratio |-> Num(3)]}
GithubObjects ==
  {Null, [k |-> "obj", days_since_last_commit |-> Num(3), stars |-> Num(1001)]}

EnhancedSocialInputs ==
  [data_source : {"real (enhanced)"},
   community_score : SubScores, engagement_score : SubScores, developer_score : SubScores,
   sentiment : Sentiments,
   twitter : TwitterObjects, reddit : RedditObjects, github : GithubObjects]

LegacySocialInputs ==
  [data_source : {"simulated (LunarCrush-style)"},
   galaxy_score : {Undefined} \cup Nums({-100, 0, 49, 50, 69, 70, 100, 400}),
   alt_rank : {Undefined} \cup Nums({100, 101, 500, 501, 2000, 2001}),
   sentiment : Sentiments,
   social_volume_24h : {Undefined} \cup Nums({4999, 5000, 20000, 20001})]

SocialInputs == EnhancedSocialInputs \cup LegacySocialInputs

\* --- scoreOnchain
MaxChains == 2

ChainNames == <<"ethereum", "bsc", "polygon", "arbitrum">>

ChainKeys == {ChainNames[n] : n \in 1..MaxChains}

\* Per-chain records in the shape the explorer services return
\* (total_holders, estimated_active_*), one of them also carrying the
\* holders_count / active_addresses_* names the aggregator reads.
ChainVariant(key, n) ==
  CASE n = 1 -> [key |-> key, total_holders |-> Num(20), estimated_active_7d |-> Num(1),
                 estimated_active_30d |-> Num(2), top_10_concentration |-> Num(96),
                 gini_coefficient |-> Num(95), reliability |-> "low", activity_confidence |-> "low",
                 holders_count |-> Undefined, active_addresses_7d |-> Undefined,
                 active_addresses_30d |-> Undefined, transfers_24h |-> Undefined,
                 transfers_7d |-> Undefined]
    [] n = 2 -> [key |-> key, total_holders |-> Num(600000), estimated_active_7d |-> Num(60000),
                 estimated_active_30d |-> Num(100000), top_10_concentration |-> Num(15),
                 gini_coefficient |-> Num(0), reliability |-> "high", activity_confidence |-> "medium",
                 holders_count |-> Undefined, active_addresses_7d |-> Undefined,
                 active_addresses_30d |-> Undefined, transfers_24h |-> Undefined,
                 transfers_7d |-> Undefined]
    [] n = 3 -> [key |-> key, total_holders |-> Undefined, estimated_active_7d |-> Undefined,
                 estimated_active_30d |-> Undefined, top_10_concentration |-> Undefined,
                 gini_coefficient |-> Num(85), reliability |-> "medium", activity_confidence |-> "medium",
                 holders_count |-> Undefined, active_addresses_7d |-> Undefined,
                 active_addresses_30d |-> Undefined, transfers_24h |-> Undefined,
                 transfers_7d |-> Undefined]
    [] OTHER -> [key |-> key, total_holders |-> Num(1500), estimated_active_7d |-> Num(30),
                 estimated_active_30d |-> Num(0), top_10_concentration |-> Num(82),
                 gini_coefficient |-> Undefined, reliability |-> "high", activity_confidence |-> "high",
                 holders_count |-> Num(1500), active_addresses_7d |-> Num(30),
                 active_addresses_30d |-> Num(90), transfers_24h |-> Num(40),
                 transfers_7d |-> Num(400)]

ChainRecords == {ChainVariant(key, n) : key \in ChainKeys, n \in 1..4}

\* Object.values(chains): records under pairwise distinct keys, in
\* insertion order
ChainLists ==
  UNION {{cl \in [1..n -> ChainRecords] :
            \A i, j \in 1..n : i # j => cl[i].key # cl[j].key} : n \in 0..MaxChains}

ChainInfos ==
  {Undefined,
   [k |-> "obj", is_multichain |-> TRUE, primary |-> "ethereum"],
   [k |-> "obj", is_multichain |-> FALSE, primary |-> "bsc"]}

BaseOnchain ==
  [total_holders |-> Undefined, active_addresses_7d |-> Undefined,
   active_addresses_30d |-> Undefined, total_transfers_24h |-> Undefined,
   total_transfers_7d |-> Undefined, chains |-> <<>>, chain_info |-> Undefined,
   chain_count |-> Undefined, weighted_concentration |-> Undefined,
   address_growth_mom |-> Undefined, tvl_change_7d |-> Undefined,
   daily_active_ratio |-> Undefined]

HolderValues ==
  {Undefined} \cup Nums({0, 20, 29, 30, 50, 51, 99, 100, 101, 250, 251, 500, 501,
                         999, 1000, 1001, 1999, 2000, 2001, 2500, 2501, 5000, 5001,
                         10000, 10001, 25001, 50001, 100000, 100001, 250001, 500001,
                         1000000, 1000001})
ActiveValues ==
  {Undefined} \cup Nums({0, 1, 2, 3, 5, 6, 21, 101, 501, 1001, 5001, 10001, 20001,
                         50001, 100001})
ConcValues == {Undefined} \cup Nums({10, 50, 76, 81, 86, 91, 96})
TransferValues == {Undefined} \cup Nums({0, 2, 3, 11, 51, 101, 501, 1001, 5001, 10001, 20001})
GrowthValues == {Undefined, Null, NaN} \cup Nums({-31, -30, -15, -5, 0, 1, 6, 11, 26, 51, 101})
TvlValues == {Undefined, Null} \cup Nums({-50, -40, -25, -10, 0, 1, 11, 26, 51})
DauValues == {Undefined, Null} \cup Nums({5, 6, 13, 21, 31, 41, 51})

\* root-level data, no chain list: holders with activity
OnchainRootInputs ==
  {[BaseOnchain EXCEPT !.total_holders = h, !.active_addresses_7d = a,
                       !.active_addresses_30d = b] :
     h \in HolderValues, a \in ActiveValues, b \in {Undefined} \cup Nums({10, 100000})}

\* root-level data: holders with concentration
OnchainConcentrationInputs ==
  {[BaseOnchain EXCEPT !.total_holders = h, !.active_addresses_7d = a,
                       !.weighted_concentration = c] :
     h \in HolderValues, a \in {Undefined} \cup Nums({0, 100}), c \in ConcValues}

\* transaction volume
OnchainTransferInputs ==
  {[BaseOnchain EXCEPT !.total_holders = h, !.active_addresses_7d = a,
                       !.total_transfers_24h = t, !.total_transfers_7d = u] :
     h \in Nums({20, 99, 5000}), a \in Nums({0, 1, 4, 100}),
     t \in TransferValues, u \in {Undefined} \cup Nums({0, 100, 1500, 3000})}

\* optional growth metrics
OnchainGrowthInputs ==
  {[BaseOnchain EXCEPT !.total_holders = ha[1], !.active_addresses_7d = ha[2],
                       !.address_growth_mom = g, !.tvl_change_7d = t,
                       !.daily_active_ratio = d] :
     ha \in {<<Num(20), Num(1)>>, <<Num(5000), Undefined>>},
     g \in GrowthValues, t \in TvlValues, d \in DauValues}

\* chain lists, with and without root totals
OnchainChainInputs ==
  {[BaseOnchain EXCEPT !.total_holders = h, !.active_addresses_7d = a, !.chains = cl] :
     h \in {Undefined} \cup Nums({0, 5000}), a \in {Undefined} \cup Nums({7}),
     cl \in ChainLists}
  \cup
  {[BaseOnchain EXCEPT !.chains = cl, !.chain_info = ci, !.chain_count = n,
                       !.weighted_concentration = c] :
     cl \in ChainLists, ci \in ChainInfos, n \in {Undefined} \cup Nums({3, 6}),
     c \in {Undefined} \cup Nums({50})}

\* 20 holders with 1 address active in 7 days, next to every other metric
OnchainGhostInputs ==
  {[BaseOnchain EXCEPT !.total_holders = Num(20), !.active_addresses_7d = Num(1),
                       !.active_addresses_30d = b, !.total_transfers_24h = t,
                       !.total_transfers_7d = u, !.weighted_concentration = c,
                       !.chain_info = ci, !.chain_count = n, !.chains = cl,
                       !.address_growth_mom = g] :
     b \in {Undefined, Num(1)}, t \in {Undefined, Num(20001)},
     u \in {Undefined, Num(100)}, c \in {Undefined, Num(10)},
     ci \in ChainInfos, n \in {Undefined, Num(6)},
     cl \in {cl \in ChainLists : \A i \in DOMAIN cl : cl[i] = ChainVariant(cl[i].key, 2)},
     g \in {Undefined, Num(101)}}

OnchainInputs ==
  OnchainRootInputs \cup OnchainConcentrationInputs \cup OnchainTransferInputs
    \cup OnchainGrowthInputs \cup OnchainChainInputs \cup OnchainGhostInputs

\* --- calculateOverallScore / classifyScore
ComponentScoreValues == {0, 100, 200, 49900, 50000, 70100, 10 * Unit}
ScoreMaps == [Components -> ComponentScoreValues]
ClassifyInputs == {0, 49990, 50000, 50010, 69990, 70000, 70010, 10 * Unit}

----------------------------------------------------------------------------
(* Scoring operations as a state machine: one call at a time, op names the *)
(* operation that ran, arg its argument and res what it returned.          *)

NoValue == [k |-> "none"]

ScoringInit ==
  /\ op = "idle"
  /\ arg = NoValue
  /\ res = NoValue
  /\ weights = ConfigWeights

Call(name, a, r) ==
  /\ op' = name
  /\ arg' = a
  /\ res' = r
  /\ UNCHANGED weights

ScoreTokenomics ==
  /\ op = "idle"
  /\ \E coinData \in TokenomicsInputs :
      Call("scoreTokenomics", coinData, scoreTokenomics(coinData))

ScoreLiquidity ==
  /\ op = "idle"
  /\ \E coinData \in LiquidityInputs :
      Call("scoreLiquidity", coinData, scoreLiquidity(coinData))

ScoreSocial ==
  /\ op = "idle"
  /\ \E socialData \in SocialInputs :
      Call("scoreSocial", socialData, scoreSocial(socialData))

ScoreOnchain ==
  /\ op = "idle"
  /\ \E onchainData \in OnchainInputs :
      Call("scoreOnchain", onchainData, scoreOnchain(onchainData))

AggregateMultiChainMetrics ==
  /\ op = "idle"
  /\ \E chains \in ChainLists :
      Call("aggregateMultiChainMetrics", chains, aggregateMultiChainMetrics(chains))

CalculateOverallScore ==
  /\ op = "idle"
  /\ \E scores \in ScoreMaps, tieUp \in BOOLEAN :
      Call("calculateOverallScore", [scores |-> scores, tieUp |-> tieUp],
         calculateOverallScore(scores, weights, tieUp))

ClassifyScore ==
  /\ op = "idle"
  /\ \E score \in ClassifyInputs :
      Call("classifyScore", score, classifyScore(score))

Return ==
  /\ op # "idle"
  /\ op' = "idle"
  /\ arg' = NoValue
  /\ res' = NoValue
  /\ UNCHANGED weights

----------------------------------------------------------------------------
(* AnalyzerService.analyzeCoin, scoring part: the four scorers, the        *)
(* overall score, the classification and the assembled report.             *)

\* Data in the shape the providers deliver it (CoinGeckoService.getCoinData
\* defaults every number with `|| 0`; the social service returns the mock
\* or the aggregated real metrics).
ProviderCoinData ==
  [circulating_supply : Nums({0, 41, 100}),
   total_supply : Nums({0, 100}),
   max_supply : {Null, Num(100)},
   price_usd : Nums({1, 3}),
   market_cap : Nums({0, 100}),
   liquidity : [k : {"obj"}, volume_to_market_cap : Nums({0, 11}),
                binance_volume : Nums({0, 50}),
                total_volume : Nums({100, 50000001})]]

ProviderSocialData ==
  {[data_source |-> "simulated (LunarCrush-style)", galaxy_score |-> Num(g),
    alt_rank |-> Num(r), sentiment |-> IF g >= 70 THEN "bullish" ELSE "bearish",
    social_volume_24h |-> Num(1000)] : g \in {35, 86}, r \in {50, 1500}}
  \cup
  {[data_source |-> "real (enhanced)", community_score |-> Num(c),
    engagement_score |-> Num(c), developer_score |-> Num(100),
    sentiment |-> "bullish", twitter |-> Null, reddit |-> Null, github |-> Null] :
     c \in {0, 100}}

ProviderOnchainData ==
  {[BaseOnchain EXCEPT !.total_holders = Num(h), !.active_addresses_7d = Num(a)] :
     h \in {0, 20, 2000001}, a \in {1, 200000}}

analyzeCoinScoring(coinData, socialData, onchainData, w, tieUp) ==
  LET tokenomicsResult == scoreTokenomics(coinData)
      liquidityResult == scoreLiquidity(coinData)
      socialResult == scoreSocial(socialData)
      onchainResult == scoreOnchain(onchainData)
  IN IF tokenomicsResult.threw \/ liquidityResult.threw
        \/ socialResult.threw \/ onchainResult.threw
     THEN [threw |-> TRUE]
     ELSE
     LET scores == [tokenomics |-> tokenomicsResult.score,
                    liquidity |-> liquidityResult.score,
                    social |-> socialResult.score,
                    onchain |-> onchainResult.score]
         overallScore ==
           IF \A c \in Components : IsNum(scores[c])
           THEN Num(calculateOverallScore([c \in Components |-> scores[c].v], w, tieUp))
           ELSE NaN
         \* every comparison with NaN is false: classifyScore(NaN) is RED
         classification ==
           IF IsNum(overallScore) THEN classifyScore(overallScore.v) ELSE "RED"
     IN [threw |-> FALSE,
         overall_score |-> overallScore,
         classification |-> classification,
         scores |-> scores,
         data_sources |-> [social_sentiment |-> socialData.data_source]]

AnalyzeCoinScoring ==
  /\ op = "idle"
  /\ \E coinData \in ProviderCoinData, socialData \in ProviderSocialData,
     onchainData \in ProviderOnchainData, tieUp \in BOOLEAN :
      Call("analyzeCoin",
         [coinData |-> coinData, socialData |-> socialData, onchainData |-> onchainData],
         analyzeCoinScoring(coinData, socialData, onchainData, weights, tieUp))

ScoringNext ==
  \/ ScoreTokenomics
  \/ ScoreLiquidity
  \/ ScoreSocial
  \/ ScoreOnchain
  \/ AggregateMultiChainMetrics
  \/ CalculateOverallScore
  \/ ClassifyScore
  \/ AnalyzeCoinScoring
  \/ Return

----------------------------------------------------------------------------
(* Quiescent values of the server and of the batch pipeline                *)

----------------------------------------------------------------------------
(* HTTP controller: analyze and compare handlers over the analysis cache   *)
(* and the history store.  Each action is one run of a handler between     *)
(* two awaits.                                                             *)

\* requests received in one run
MaxReqs == 2

ReqTickers == {"btc", "ETH"}

\* String.prototype.toUpperCase on the tickers in use
ToUpperCase(t) ==
  CASE t = "btc" -> "BTC" [] t = "BTC" -> "BTC"
    [] t = "eth" -> "ETH" [] t = "ETH" -> "ETH"
    [] t = "usdt" -> "USDT" [] t = "b@d" -> "B@D"
    [] OTHER -> t

\* `analysis:${ticker.toUpperCase()}`
CacheKey(ticker) == <<"analysis", ToUpperCase(ticker)>>

CacheKeys == {CacheKey(t) : t \in ReqTickers}

\* cache.get(key): the stored value, or null when absent or expired
cacheGet(c, key) == c[key]

\* cache.set(key, value): the whole value replaces the entry
cacheSet(c, key, value) == [c EXCEPT ![key] = value]

IsReport(x) == x.k = "report"

\* the overall score the scoring engine gives a coin during one run
ReportScore(ticker) == IF ToUpperCase(ticker) = "BTC" THEN 72000 ELSE 45000

\* the report assembled by a finished AnalyzerService.analyzeCoin
Report(ticker, overallScore, now) ==
  [k |-> "report",
   ticker |-> ToUpperCase(ticker),
   overall_score |-> overallScore,
   classification |-> classifyScore(overallScore),
   analyzed_at |-> now]

NoResp == [status |-> 0, error |-> "", from_cache |-> FALSE, body |-> Null]

\* the locals of a handler activation
NewReq ==
  [kind |-> "none", ticker |-> "", refresh |-> "", tickers |-> Undefined,
   i |-> 0, pc |-> "new", cachedResult |-> Null, result |-> Null,
   results |-> <<>>, fetched |-> FALSE, saved |-> FALSE, resp |-> NoResp]

ServerInit ==
  /\ cache = [key \in CacheKeys |-> Null]
  /\ history = <<>>
  /\ reqs = EmptyBag
  /\ nextId = 1
  /\ produced = {}

\* variant: a cache hit answered as a fresh analysis
CacheHitResponse_fresh(cachedResult) ==
  [status |-> 200, error |-> "", from_cache |-> FALSE, body |-> cachedResult,
   cache_expires_in |-> 60]

\* res.json({...cachedResult, from_cache: true, cache_expires_in: '1 hour'}),
\* the lifetime in minutes
CacheHitResponse(cachedResult) ==
  [status |-> 200, error |-> "", from_cache |-> TRUE, body |-> cachedResult,
   cache_expires_in |-> 60]

\* res.json({...result, from_cache: false})
FreshResponse(result) ==
  [status |-> 200, error |-> "", from_cache |-> FALSE, body |-> result]

ErrorResponse(status, error) ==
  [status |-> status, error |-> error, from_cache |-> FALSE, body |-> Null]

\* the catch block of analyzeCoin
AnalyzeErrorResponse(notFound) ==
  IF notFound THEN ErrorResponse(404, "Coin not found")
  ELSE ErrorResponse(500, "Analysis failed")

\* results.push({ticker, name, overall_score, classification, ...})
CompareEntry(result) ==
  [ticker |-> result.ticker, overall_score |-> result.overall_score,
   classification |-> result.classification]

\* results.sort((a, b) => b.overall_score - a.overall_score), stable
RECURSIVE InsertDesc(_, _)
InsertDesc(e, s) ==
  IF s = <<>> THEN <<e>>
  ELSE IF s[Len(s)].overall_score >= e.overall_score THEN Append(s, e)
  ELSE Append(InsertDesc(e, SubSeq(s, 1, Len(s) - 1)), s[Len(s)])

RECURSIVE SortDesc(_)
SortDesc(s) ==
  IF s = <<>> THEN <<>>
  ELSE InsertDesc(s[Len(s)], SortDesc(SubSeq(s, 1, Len(s) - 1)))

\* variant: the entries answered in the order of the request
CompareResponse_unsorted(results) ==
  [status |-> 200, error |-> "", from_cache |-> FALSE,
   body |-> [k |-> "comparison", comparison |-> results, winner |-> results[1]]]

CompareResponse(results) ==
  LET sorted == SortDesc(results)
  IN [status |-> 200, error |-> "", from_cache |-> FALSE,
      body |-> [k |-> "comparison", comparison |-> sorted, winner |-> sorted[1]]]

ArrayOf(s) == [k |-> "arr", v |-> s]

CompareBodies ==
  {[k |-> "str", v |-> "btc"], ArrayOf(<<"btc">>), ArrayOf(<<"ETH", "btc">>),
   ArrayOf([n \in 1..11 |-> "btc"])}

\* the requests received so far, as a bag of handler activations
InFlight == BagToSet(reqs)

SetReq(q, q2) == reqs' = (reqs (-) SetToBag({q})) (+) SetToBag({q2})

Accept(q) ==
  /\ BagCardinality(reqs) < MaxReqs
  /\ reqs' = reqs (+) SetToBag({q})

\* GET /analyze/:ticker up to the first await
ReceiveAnalyze ==
  /\ \E ticker \in ReqTickers, refresh \in {"true", "false"} :
       Accept([NewReq EXCEPT !.kind = "analyze", !.ticker = ticker,
                                 !.refresh = refresh,
                                 !.pc = IF refresh # "true" THEN "cacheGet" ELSE "analyze"])
  /\ UNCHANGED <<cache, history, nextId, produced>>

\* cache.get resolves in analyzeCoin: answer from the cache or go on
CacheGet(q) ==
  /\ q.pc = "cacheGet" /\ q.kind = "analyze"
  /\ LET cachedResult == cacheGet(cache, CacheKey(q.ticker))
     IN IF IsReport(cachedResult)
        THEN SetReq(q, [q EXCEPT !.cachedResult = cachedResult, !.pc = "done",
                                       !.resp = CacheHitResponse(cachedResult)])
        ELSE SetReq(q, [q EXCEPT !.pc = "analyze"])
  /\ UNCHANGED <<cache, history, nextId, produced>>

\* the ticker a handler is working on
CurTicker(q) == IF q.kind = "compare" THEN q.tickers.v[q.i] ELSE q.ticker

\* analyzerService.analyzeCoin(ticker) resolves with a report
AnalyzeCoinResolves(q) ==
  /\ q.pc = "analyze"
  /\ LET result == Report(CurTicker(q), ReportScore(CurTicker(q)), nextId)
     IN /\ SetReq(q, [q EXCEPT !.result = result, !.fetched = TRUE, !.pc = "cacheSet"])
        /\ produced' = produced \cup {result}
  /\ nextId' = nextId + 1
  /\ UNCHANGED <<cache, history>>

\* variant: the failing comparison takes back the entries of its earlier tickers
AnalyzeCoinRejects_rollback(q) ==
  /\ q.pc = "analyze"
  /\ SetReq(q, [q EXCEPT !.fetched = TRUE, !.pc = "done",
                         !.resp = IF q.kind = "compare"
                                  THEN ErrorResponse(500, "Comparison failed")
                                  ELSE AnalyzeErrorResponse(FALSE)])
  /\ cache' = [key \in CacheKeys |->
                IF q.kind = "compare"
                   /\ \E j \in 1..(q.i - 1) : CacheKey(q.tickers.v[j]) = key
                THEN Null ELSE cache[key]]
  /\ UNCHANGED <<history, nextId, produced>>

\* variant: the failing handler leaves a stub entry in the cache
AnalyzeCoinRejects_writes(q) ==
  /\ q.pc = "analyze"
  /\ SetReq(q, [q EXCEPT !.fetched = TRUE, !.pc = "done",
                         !.resp = AnalyzeErrorResponse(TRUE)])
  /\ cache' = cacheSet(cache, CacheKey(CurTicker(q)), Report(CurTicker(q), 0, 0))
  /\ UNCHANGED <<history, nextId, produced>>

\* analyzerService.analyzeCoin(ticker) rejects; the handler's catch answers
AnalyzeCoinRejects(q) ==
  /\ q.pc = "analyze"
  /\ \E notFound \in BOOLEAN :
       SetReq(q, [q EXCEPT
                    !.fetched = TRUE, !.pc = "done",
                    !.resp = IF q.kind = "compare"
                             THEN ErrorResponse(500, "Comparison failed")
                             ELSE AnalyzeErrorResponse(notFound)])
  /\ UNCHANGED <<cache, history, nextId, produced>>

\* cache.set(`analysis:${ticker.toUpperCase()}`, result)
CacheSet(q) ==
  /\ q.pc = "cacheSet"
  /\ cache' = cacheSet(cache, CacheKey(CurTicker(q)), q.result)
  /\ SetReq(q, [q EXCEPT !.pc = "saveAnalysis"])
  /\ UNCHANGED <<history, nextId, produced>>

\* one ticker of the compare loop is finished: next ticker or the response
PushResult(q, result) ==
  LET results == Append(q.results, CompareEntry(result))
  IN IF q.i = Len(q.tickers.v)
     THEN [q EXCEPT !.results = results, !.pc = "done",
                    !.resp = CompareResponse(results)]
     ELSE [q EXCEPT !.results = results, !.i = q.i + 1, !.pc = "cacheGet",
                    !.result = Null]

\* db.saveAnalysis(result) settles; the rest of the handler runs
SaveAnalysis(q) ==
  /\ q.pc = "saveAnalysis"
  /\ \E ok \in BOOLEAN :
       IF ok
       THEN /\ history' = Append(history, q.result)
            /\ SetReq(q, IF q.kind = "compare"
                         THEN PushResult([q EXCEPT !.saved = TRUE], q.result)
                         ELSE [q EXCEPT !.saved = TRUE, !.pc = "done",
                                              !.resp = FreshResponse(q.result)])
       ELSE /\ history' = history
            /\ SetReq(q, [q EXCEPT
                            !.pc = "done",
                            !.resp = IF q.kind = "compare"
                                     THEN ErrorResponse(500, "Comparison failed")
                                     ELSE AnalyzeErrorResponse(FALSE)])
  /\ UNCHANGED <<cache, nextId, produced>>

\* compareCoins up to its first await: the validation, then the loop
compareCoinsEntry(tickers) ==
  LET q == [NewReq EXCEPT !.kind = "compare", !.tickers = tickers]
  IN IF tickers.k # "arr" \/ Len(tickers.v) < 2
     THEN [q EXCEPT !.pc = "done", !.resp = ErrorResponse(400, "Invalid input")]
     ELSE IF Len(tickers.v) > 10
     THEN [q EXCEPT !.pc = "done", !.resp = ErrorResponse(400, "Too many tickers")]
     ELSE [q EXCEPT !.pc = "cacheGet", !.i = 1]

\* POST /compare up to the first await
ReceiveCompare ==
  /\ \E tickers \in CompareBodies : Accept(compareCoinsEntry(tickers))
  /\ UNCHANGED <<cache, history, nextId, produced>>

\* compare requests of one client, each sent after the answer to the one
\* before
MaxCompares == 2

SerialCompareBodies ==
  {ArrayOf(<<"btc">>), ArrayOf(<<"ETH", "btc">>), ArrayOf(<<"ETH", "btc", "ETH">>),
   ArrayOf(<<"btc", "ETH", "btc">>)}

ReceiveCompareSerial ==
  /\ \A q \in InFlight : q.pc = "done"
  /\ BagCardinality(reqs) < MaxCompares
  /\ \E tickers \in SerialCompareBodies :
       reqs' = reqs (+) SetToBag({compareCoinsEntry(tickers)})
  /\ UNCHANGED <<cache, history, nextId, produced>>

\* cache.get resolves in the compare loop
CompareCacheGet(q) ==
  /\ q.pc = "cacheGet" /\ q.kind = "compare"
  /\ LET result == cacheGet(cache, CacheKey(CurTicker(q)))
     IN IF IsReport(result)
        THEN SetReq(q, PushResult(q, result))
        ELSE SetReq(q, [q EXCEPT !.pc = "analyze"])
  /\ UNCHANGED <<cache, history, nextId, produced>>

\* the time to live of an entry runs out
Expire(key) ==
  /\ IsReport(cache[key])
  /\ cache' = [cache EXCEPT ![key] = Null]
  /\ UNCHANGED <<history, reqs, nextId, produced>>

\* config.redis.cacheTTL: parseInt(process.env.CACHE_TTL) || 3600, in seconds,
\* with CACHE_TTL not set
cacheTTL == 3600

\* minutes between two readings of the clock, and the last reading taken
TickMinutes == 15
MaxTicks == 6

\* no entry has been written and the clock stands at 0
TtlIdle ==
  /\ clock = 0
  /\ written = [key \in CacheKeys |-> -1]

\* cache.set at the time of the clock: the entry lives cacheTTL seconds
CacheSetAt(q) ==
  /\ CacheSet(q)
  /\ written' = [written EXCEPT ![CacheKey(CurTicker(q))] = clock]
  /\ UNCHANGED clock

\* variant: time passes and every entry stays
Tick_keeps ==
  /\ clock < MaxTicks * TickMinutes
  /\ clock' = clock + TickMinutes
  /\ UNCHANGED <<cache, written, history, reqs, nextId, produced>>

\* time passes; an entry is gone once its time to live has run out
Tick ==
  /\ clock < MaxTicks * TickMinutes
  /\ clock' = clock + TickMinutes
  /\ cache' = [key \in CacheKeys |->
                IF IsReport(cache[key]) /\ (clock' - written[key]) * 60 >= cacheTTL
                THEN Null ELSE cache[key]]
  /\ UNCHANGED <<written, history, reqs, nextId, produced>>

MaxTimedReqs == 2

\* GET /analyze/:ticker, one request after the other
ReceiveAnalyzeSerial ==
  /\ \A q \in InFlight : q.pc = "done"
  /\ BagCardinality(reqs) < MaxTimedReqs
  /\ \E ticker \in ReqTickers, refresh \in {"true", "false"} :
       reqs' = reqs (+) SetToBag({[NewReq EXCEPT
                                     !.kind = "analyze", !.ticker = ticker,
                                     !.refresh = refresh,
                                     !.pc = IF refresh # "true" THEN "cacheGet"
                                            ELSE "analyze"]})
  /\ UNCHANGED <<cache, history, nextId, produced>>

TimedNext ==
  \/ ReceiveAnalyzeSerial /\ UNCHANGED ttlVars
  \/ \E q \in InFlight : CacheGet(q) /\ UNCHANGED ttlVars
  \/ \E q \in InFlight : AnalyzeCoinResolves(q) /\ UNCHANGED ttlVars
  \/ \E q \in InFlight : AnalyzeCoinRejects(q) /\ UNCHANGED ttlVars
  \/ \E q \in InFlight : CacheSetAt(q)
  \/ \E q \in InFlight : SaveAnalysis(q) /\ UNCHANGED ttlVars
  \/ Tick

ServerNext ==
  \/ ReceiveAnalyze
  \/ \E q \in InFlight : CacheGet(q)
  \/ \E q \in InFlight : AnalyzeCoinResolves(q)
  \/ \E q \in InFlight : AnalyzeCoinRejects(q)
  \/ \E q \in InFlight : CacheSet(q)
  \/ \E q \in InFlight : SaveAnalysis(q)
  \/ ReceiveCompare
  \/ \E q \in InFlight : CompareCacheGet(q)
  \/ \E key \in CacheKeys : Expire(key)

----------------------------------------------------------------------------
(* AnalyzerService.analyzeBatch: waves of at most maxConcurrent analyses   *)

MaxBatch == 7
MaxConcurrentArg == 3

DefaultMaxConcurrent == 3

\* the tickers a caller passes; a ticker may be passed more than once
BatchUniverse == <<"BTC", "ETH", "BTC", "ADA", "XRP", "DOT", "ETH", "LTC", "BNB">>

\* the awaits of analyzeCoin in source order
Stages == <<"coingecko", "defillama", "twitter", "social", "onchain">>

StageIndex(stage) == CHOOSE n \in DOMAIN Stages : Stages[n] = stage

\* provider calls outstanding while an analysis waits in a stage: the
\* social stage awaits Twitter, Reddit and GitHub together (Promise.all);
\* the onchain stage is counted as one explorer call, the fewest it makes
CallsOutstanding(stage) == IF stage = "social" THEN 3 ELSE 1

RECURSIVE SumCalls(_)
SumCalls(S) ==
  IF S = {} THEN 0
  ELSE LET a == CHOOSE x \in S : TRUE
       IN CallsOutstanding(a.stage) + SumCalls(S \ {a})

ProviderCalls == SumCalls(bFlight)

Min(a, b) == IF a < b THEN a ELSE b

\* variant: every remaining ticker is started at once
StartWave_all(tickers, i, maxConcurrent) ==
  {[idx |-> j, stage |-> "coingecko"] : j \in (i + 1)..Len(tickers)}

\* tickers.slice(i, i + maxConcurrent).map(async ticker => ...): every
\* analysis of the wave runs up to its first await
StartWave(tickers, i, maxConcurrent) ==
  {[idx |-> j, stage |-> "coingecko"] : j \in (i + 1)..Min(i + maxConcurrent, Len(tickers))}

BatchIdle ==
  /\ bTickers = <<>>
  /\ bMax = 0
  /\ bI = 0
  /\ bPc = "idle"
  /\ bFlight = {}
  /\ bResults = <<>>
  /\ bErrors = <<>>
  /\ bSleeps = 0

\* analyzeBatch(tickers, maxConcurrent = 3) up to its first await
AnalyzeBatch ==
  /\ bPc = "idle"
  /\ \E n \in 0..MaxBatch, maxConcurrent \in {Undefined} \cup {Num(m) : m \in 1..MaxConcurrentArg} :
       LET tickers == SubSeq(BatchUniverse, 1, n)
           m == IF maxConcurrent = Undefined THEN DefaultMaxConcurrent ELSE maxConcurrent.v
       IN /\ bTickers' = tickers
          /\ bMax' = m
          /\ bFlight' = StartWave(tickers, 0, m)
          /\ bPc' = IF n = 0 THEN "returned" ELSE "wave"
  /\ bI' = 0
  /\ bResults' = <<>>
  /\ bErrors' = <<>>
  /\ bSleeps' = 0

\* a provider await of one analysis resolves; the next fetch is issued
FetchResolves(a) ==
  /\ a.stage # "onchain"
  /\ bFlight' = (bFlight \ {a}) \cup {[a EXCEPT !.stage = Stages[StageIndex(a.stage) + 1]]}
  /\ UNCHANGED <<bTickers, bMax, bI, bPc, bResults, bErrors, bSleeps>>

\* the last await resolves: scoring runs, analyzeCoin returns, results.push
AnalysisResolves(a) ==
  /\ a.stage = "onchain"
  /\ bFlight' = bFlight \ {a}
  /\ bResults' = Append(bResults, bTickers[a.idx])
  /\ UNCHANGED <<bTickers, bMax, bI, bPc, bErrors, bSleeps>>

\* variant: the rejection escapes the callback and ends analyzeBatch
AnalysisRejects_aborts(a) ==
  /\ a.stage = "coingecko"
  /\ bFlight' = {}
  /\ bPc' = "returned"
  /\ UNCHANGED <<bTickers, bMax, bI, bResults, bErrors, bSleeps>>

\* getCoinData throws: analyzeCoin rethrows, errors.push
AnalysisRejects(a) ==
  /\ a.stage = "coingecko"
  /\ bFlight' = bFlight \ {a}
  /\ bErrors' = Append(bErrors, bTickers[a.idx])
  /\ UNCHANGED <<bTickers, bMax, bI, bPc, bResults, bSleeps>>

\* Promise.all(batchPromises) resolves: sleep, or leave the loop and return
WaveSettled ==
  /\ bPc = "wave" /\ bFlight = {}
  /\ IF bI + bMax < Len(bTickers)
     THEN /\ bPc' = "sleep"
          /\ bSleeps' = bSleeps + 1
          /\ bI' = bI
     ELSE /\ bPc' = "returned"
          /\ bSleeps' = bSleeps
          /\ bI' = bI + bMax
  /\ UNCHANGED <<bTickers, bMax, bFlight, bResults, bErrors>>

\* the 2000 ms timer fires: i += maxConcurrent and the next wave starts
SleepElapses ==
  /\ bPc = "sleep"
  /\ bI' = bI + bMax
  /\ bFlight' = StartWave(bTickers, bI + bMax, bMax)
  /\ bPc' = "wave"
  /\ UNCHANGED <<bTickers, bMax, bResults, bErrors, bSleeps>>

\* the caller has taken {results, errors}
BatchReturn ==
  /\ bPc = "returned"
  /\ bTickers' = <<>> /\ bMax' = 0 /\ bI' = 0 /\ bPc' = "idle" /\ bFlight' = {}
  /\ bResults' = <<>> /\ bErrors' = <<>> /\ bSleeps' = 0

BatchNext ==
  \/ AnalyzeBatch
  \/ \E a \in bFlight : FetchResolves(a)
  \/ \E a \in bFlight : AnalysisResolves(a)
  \/ \E a \in bFlight : AnalysisRejects(a)
  \/ WaveSettled
  \/ SleepElapses
  \/ BatchReturn

----------------------------------------------------------------------------
(* One analyze request end to end: the handler of GET /analyze/:ticker,    *)
(* AnalyzerService.analyzeCoin with each provider call, the on-chain       *)
(* metrics cache, the scoring step and the response.  One request at a     *)
(* time; a provider call resolves, finds nothing, or fails (error or       *)
(* timeout).                                                               *)

\* a symbol of the CoinGecko coin list and a malformed ticker
AnTickers == {"usdt", "b@d"}
ListedTickers == {"usdt"}

\* what detectChains / getDataStrategy make of the coin: a native coin, a
\* token on several chains, or no platform at all
CoinKinds == {"native", "multi", "none"}

SocialPlatforms == {"twitterAPI", "reddit", "github"}
Fetchers == SocialPlatforms \cup ChainKeys

\* `${this.cachePrefix}${ticker}`: the ticker as given, not upper-cased
OnchainCacheKey(ticker) == <<"onchain:enhanced:", ticker>>

\* the result of getCoinData that the scorers read
AnCoinData ==
  [circulating_supply |-> Num(41), total_supply |-> Num(100), max_supply |-> Null,
   price_usd |-> Num(1), market_cap |-> Num(100),
   liquidity |-> [k |-> "obj", volume_to_market_cap |-> Num(11),
                  binance_volume |-> Num(50), total_volume |-> Num(100)]]

\* variant: a mock metric set without its galaxy score
SocialFallback_bare ==
  [data_source |-> "simulated (LunarCrush-style)", galaxy_score |-> Undefined,
   alt_rank |-> Num(1500), sentiment |-> "bearish", social_volume_24h |-> Num(1000),
   data_quality |-> "simulated"]

\* socialMock.generateSocialMetrics for a small market cap, tagged by
\* getSocialMetrics
SocialFallback ==
  [data_source |-> "simulated (LunarCrush-style)", galaxy_score |-> Num(35),
   alt_rank |-> Num(1500), sentiment |-> "bearish", social_volume_24h |-> Num(1000),
   data_quality |-> "simulated"]

\* aggregateRealData over the platform results that are not null.  With the
\* platform data used here the community score is 100 and the engagement
\* score 50 as soon as Twitter or Reddit answered, the developer score is
\* 100 with GitHub.
aggregateRealData(twitter, reddit, github) ==
  [data_source |-> "real (enhanced)", data_quality |-> "high",
   community_score |-> Num(IF twitter \/ reddit THEN 100 ELSE 0),
   engagement_score |-> Num(IF twitter \/ reddit THEN 50 ELSE 0),
   developer_score |-> Num(IF github THEN 100 ELSE 0),
   sentiment |-> IF reddit /\ ~twitter THEN "bullish"
                 ELSE IF twitter /\ ~reddit THEN "bearish" ELSE "neutral",
   twitter |-> IF twitter
               THEN [k |-> "obj", followers |-> Num(100001), verified |-> TRUE]
               ELSE Null,
   reddit |-> IF reddit
              THEN [k |-> "obj", subscribers |-> Num(50001), activity_ratio |-> Num(3)]
              ELSE Null,
   github |-> IF github
              THEN [k |-> "obj", days_since_last_commit |-> Num(3), stars |-> Num(1001)]
              ELSE Null]

\* variant: the platform results are aggregated even when all are null
getSocialMetrics_always(got) ==
  aggregateRealData(got["twitterAPI"] = "data", got["reddit"] = "data",
                    got["github"] = "data")

\* the tail of getSocialMetrics, after its Promise.all
getSocialMetrics(got) ==
  LET hasRealData == \E p \in SocialPlatforms : got[p] = "data"
  IN IF ~hasRealData THEN SocialFallback
     ELSE aggregateRealData(got["twitterAPI"] = "data", got["reddit"] = "data",
                            got["github"] = "data")

\* getMockMetrics: holders_count, transfers_24h and active_addresses_*,
\* no total_holders
getMockMetrics ==
  [BaseOnchain EXCEPT !.active_addresses_7d = Num(2500),
                      !.active_addresses_30d = Num(5000)]
    @@ [data_source |-> "simulated (fallback)"]

\* estimateNativeMetrics: estimates only, none of the fields scoreOnchain reads
estimateNativeMetrics ==
  BaseOnchain @@ [data_source |-> "estimated (native coin)"]

\* the chains whose explorer answered, in the order of chainInfo.detected
RECURSIVE ChainsGot(_, _)
ChainsGot(got, n) ==
  IF n = 0 THEN <<>>
  ELSE ChainsGot(got, n - 1)
         \o (IF got[ChainNames[n]] = "data" THEN <<ChainVariant(ChainNames[n], 2)>> ELSE <<>>)

\* getMultiChainMetrics after its Promise.all: aggregate, attach the chains
getMultiChainMetrics(got) ==
  LET chainMetrics == ChainsGot(got, MaxChains)
      aggregated == aggregateMultiChainMetrics(chainMetrics)
      root == IF aggregated.empty THEN BaseOnchain
              ELSE [BaseOnchain EXCEPT
                      !.total_holders = Num(aggregated.total_holders),
                      !.active_addresses_7d = Num(aggregated.active_addresses_7d),
                      !.active_addresses_30d = Num(aggregated.active_addresses_30d),
                      !.total_transfers_24h = Num(aggregated.total_transfers_24h),
                      !.total_transfers_7d = Num(aggregated.total_transfers_7d),
                      !.weighted_concentration = Num(aggregated.weighted_concentration),
                      !.chain_count = Num(aggregated.chain_count)]
  IN [root EXCEPT !.chains = chainMetrics]
       @@ [data_source |-> "real (multi-chain aggregated)"]

\* metrics.chain_info = {...} added by getOnChainMetrics before caching
WithChainInfo(metrics, kind) ==
  [metrics EXCEPT !.chain_info =
     [k |-> "obj", is_multichain |-> (kind = "multi" /\ MaxChains > 1),
      primary |-> IF kind = "multi" THEN ChainNames[1] ELSE "none"]]

\* the report assembled by analyzeCoin from what the scoring step returned
analyzeCoinReport(s, ticker, tvlData, twitterData, socialData, onchainData) ==
  IF s.threw THEN [k |-> "threw"]
  ELSE [k |-> "report",
        ticker |-> ToUpperCase(ticker),
        overall_score |-> s.overall_score,
        classification |-> s.classification,
        scores |-> s.scores,
        market_data |-> [price_usd |-> AnCoinData.price_usd,
                         market_cap |-> AnCoinData.market_cap],
        data_sources |->
          [price_liquidity |-> "real (CoinGecko API)",
           tvl |-> IF tvlData.k = "obj" THEN "real (DefiLlama API)" ELSE "not available",
           twitter |-> twitterData.data_source,
           social_sentiment |-> socialData.data_source,
           onchain_activity |-> onchainData.data_source],
        metadata |-> [analyzed_at |-> "iso"]]

\* analyzeCoin once every fetch has resolved: the four scorers, the overall
\* score, the classification, the report
analyzeCoinResult(ticker, tvlData, twitterData, socialData, onchainData, w, tieUp) ==
  analyzeCoinReport(analyzeCoinScoring(AnCoinData, socialData, onchainData, w, tieUp),
                    ticker, tvlData, twitterData, socialData, onchainData)

\* the locals of the request being served
NewAnalysis ==
  [pc |-> "idle", ticker |-> "", refresh |-> "", readCache |-> FALSE,
   lookups |-> 0, lookup |-> "none", kind |-> "none",
   tvlData |-> NoValue, twitterData |-> NoValue,
   pending |-> {}, got |-> [f \in Fetchers |-> "none"], failed |-> {},
   socialData |-> NoValue, onchainData |-> NoValue, onchainCached |-> FALSE,
   result |-> NoValue, resp |-> NoResp]

AnalysisIdle ==
  /\ an = NewAnalysis
  /\ acache = [key \in {CacheKey(t) : t \in AnTickers} |-> Null]
  /\ ocache = [key \in {OnchainCacheKey(t) : t \in AnTickers} |-> Null]

\* variant: the fan-in resumes as soon as it is asked (Promise.race)
AllSettled_race(pending) == TRUE

\* await Promise.all([...]): resumes when no fetch of the fan-out is pending
AllSettled(pending) == pending = {}

\* GET /analyze/:ticker up to the first await
AnalyzeRequest ==
  /\ an.pc \in {"idle", "done"}
  /\ \E ticker \in AnTickers, refresh \in {"true", "false"} :
       an' = [NewAnalysis EXCEPT
                !.ticker = ticker, !.refresh = refresh,
                !.pc = IF refresh # "true" THEN "cacheGet" ELSE "findCoinId"]
  /\ UNCHANGED <<acache, ocache>>

\* cache.get(`analysis:...`) resolves: answer from the cache or analyze
AnalysisCacheGet ==
  /\ an.pc = "cacheGet"
  /\ LET cachedResult == cacheGet(acache, CacheKey(an.ticker))
     IN an' = IF IsReport(cachedResult)
              THEN [an EXCEPT !.readCache = TRUE, !.pc = "done",
                              !.resp = CacheHitResponse(cachedResult)]
              ELSE [an EXCEPT !.readCache = TRUE, !.pc = "findCoinId"]
  /\ UNCHANGED <<acache, ocache>>

\* findCoinId: the coin list has the symbol, lacks it, or the request fails
\* and the catch returns null; without an id getCoinData throws
\* 'Coin ... not found on CoinGecko' and the handler's catch answers
FindCoinId ==
  /\ an.pc = "findCoinId"
  /\ \E outcome \in {"found", "absent", "error"} :
       /\ outcome = "found" <=> (an.ticker \in ListedTickers /\ outcome # "error")
       /\ an' = IF outcome = "found"
                THEN [an EXCEPT !.lookup = outcome, !.lookups = @ + 1, !.pc = "getCoin"]
                ELSE [an EXCEPT !.lookup = outcome, !.lookups = @ + 1, !.pc = "done",
                                !.failed = IF outcome = "error" THEN @ \cup {"coinlist"} ELSE @,
                                !.resp = AnalyzeErrorResponse(TRUE)]
  /\ UNCHANGED <<acache, ocache>>

\* axios.get(/coins/{id}) resolves or fails; a failure is rethrown by
\* getCoinData and by analyzeCoin, and the handler's catch answers 500
GetCoinData ==
  /\ an.pc = "getCoin"
  /\ \E ok \in BOOLEAN, kind \in CoinKinds :
       an' = IF ok
             THEN [an EXCEPT !.kind = kind, !.pc = "defillama"]
             ELSE [an EXCEPT !.pc = "done", !.failed = @ \cup {"coingecko"},
                             !.resp = AnalyzeErrorResponse(FALSE)]
  /\ UNCHANGED <<acache, ocache>>

\* getProtocolTVL: the protocol, null when unknown, null when the call fails
GetProtocolTVL ==
  /\ an.pc = "defillama"
  /\ \E outcome \in {"data", "absent", "error"} :
       an' = [an EXCEPT
                !.tvlData = IF outcome = "data" THEN [k |-> "obj", tvl |-> Num(1000)]
                            ELSE Null,
                !.failed = IF outcome = "error" THEN @ \cup {"defillama"} ELSE @,
                !.pc = "twitter"]
  /\ UNCHANGED <<acache, ocache>>

\* scrapeBasicStats: the scraped record, or the failed_scrape record of its
\* catch; then getSocialMetrics starts its three platform calls
ScrapeBasicStats ==
  /\ an.pc = "twitter"
  /\ \E ok \in BOOLEAN :
       an' = [an EXCEPT
                !.twitterData = [k |-> "obj",
                                 data_source |-> IF ok THEN "twitter_scrape"
                                                 ELSE "failed_scrape"],
                !.failed = IF ok THEN @ ELSE @ \cup {"twitter"},
                !.pending = @ \cup SocialPlatforms,
                !.got = [f \in Fetchers |-> IF f \in SocialPlatforms THEN "pending" ELSE @[f]],
                !.pc = "social"]
  /\ UNCHANGED <<acache, ocache>>

\* one platform call settles: data, null, or a rejection turned into null
\* by its .catch
SocialFetchSettles(p) ==
  /\ p \in an.pending \cap SocialPlatforms
  /\ \E outcome \in {"data", "null", "error"} :
       an' = [an EXCEPT
                !.pending = @ \ {p},
                !.got[p] = IF outcome = "data" THEN "data" ELSE "null",
                !.failed = IF outcome = "error" THEN @ \cup {p} ELSE @]
  /\ UNCHANGED <<acache, ocache>>

\* the Promise.all of getSocialMetrics resumes; analyzeCoin goes on to
\* getOnChainMetrics, which first reads its own cache
SocialFanIn ==
  /\ an.pc = "social"
  /\ AllSettled(an.pending \cap SocialPlatforms)
  /\ an' = [an EXCEPT !.socialData = getSocialMetrics(an.got),
                      !.pc = "onchainCacheGet"]
  /\ UNCHANGED <<acache, ocache>>

\* cache.get of getOnChainMetrics resolves.  A hit is returned as it is; on
\* a miss the strategy decides: a native coin gets estimateNativeMetrics
\* (covalentService has no getNativeChainMetrics, the TypeError is caught),
\* a coin without platforms the mock, both cached at once; a multi-chain
\* token starts one explorer call per detected chain.
OnchainCacheGet ==
  /\ an.pc = "onchainCacheGet"
  /\ LET key == OnchainCacheKey(an.ticker)
         cached == cacheGet(ocache, key)
         metrics == WithChainInfo(IF an.kind = "native" THEN estimateNativeMetrics
                                  ELSE getMockMetrics, an.kind)
     IN IF cached.k = "metrics"
        THEN /\ an' = [an EXCEPT !.onchainData = cached.v, !.onchainCached = TRUE,
                                 !.pc = "scoring"]
             /\ UNCHANGED ocache
        ELSE IF an.kind = "multi"
        THEN /\ an' = [an EXCEPT
                         !.pending = @ \cup ChainKeys,
                         !.got = [f \in Fetchers |-> IF f \in ChainKeys THEN "pending" ELSE @[f]],
                         !.pc = "onchain"]
             /\ UNCHANGED ocache
        ELSE /\ an' = [an EXCEPT !.onchainData = metrics, !.pc = "scoring"]
             /\ ocache' = cacheSet(ocache, key, [k |-> "metrics", v |-> metrics])
  /\ UNCHANGED acache

\* one explorer call settles: the chain's record, or null (the explorer
\* services catch their errors and return null)
ChainFetchSettles(c) ==
  /\ c \in an.pending \cap ChainKeys
  /\ \E outcome \in {"data", "error"} :
       an' = [an EXCEPT
                !.pending = @ \ {c},
                !.got[c] = IF outcome = "data" THEN "data" ELSE "null",
                !.failed = IF outcome = "error" THEN @ \cup {c} ELSE @]
  /\ UNCHANGED <<acache, ocache>>

\* the Promise.all of getMultiChainMetrics resumes; getOnChainMetrics adds
\* chain_info and caches the metrics
OnchainFanIn ==
  /\ an.pc = "onchain"
  /\ AllSettled(an.pending \cap ChainKeys)
  /\ LET metrics == WithChainInfo(getMultiChainMetrics(an.got), an.kind)
     IN /\ an' = [an EXCEPT !.onchainData = metrics, !.pc = "scoring"]
        /\ ocache' = cacheSet(ocache, OnchainCacheKey(an.ticker),
                              [k |-> "metrics", v |-> metrics])
  /\ UNCHANGED acache

\* analyzeCoin returns its report to the handler, or throws
AfterScoring(a, result) ==
  IF IsReport(result)
  THEN [a EXCEPT !.result = result, !.pc = "cacheSet"]
  ELSE [a EXCEPT !.pc = "done", !.resp = AnalyzeErrorResponse(FALSE)]

\* the scoring step of analyzeCoin: the four scorers, the overall score,
\* the classification and the report
CalculateScores ==
  /\ an.pc = "scoring"
  /\ \E tieUp \in BOOLEAN :
       an' = AfterScoring(an, analyzeCoinResult(an.ticker, an.tvlData, an.twitterData,
                                                an.socialData, an.onchainData,
                                                ConfigWeights, tieUp))
  /\ UNCHANGED <<acache, ocache>>

\* cache.set(`analysis:...`, result)
AnalysisCacheSet ==
  /\ an.pc = "cacheSet"
  /\ acache' = cacheSet(acache, CacheKey(an.ticker), an.result)
  /\ an' = [an EXCEPT !.pc = "saveAnalysis"]
  /\ UNCHANGED ocache

\* db.saveAnalysis(result) settles: res.json on success, the catch block
\* on a rejection
AnalysisSaved ==
  /\ an.pc = "saveAnalysis"
  /\ \E ok \in BOOLEAN :
       an' = IF ok
             THEN [an EXCEPT !.pc = "done", !.resp = FreshResponse(an.result)]
             ELSE [an EXCEPT !.pc = "done", !.failed = @ \cup {"database"},
                             !.resp = AnalyzeErrorResponse(FALSE)]
  /\ UNCHANGED <<acache, ocache>>

\* the time to live of an analysis entry or of an on-chain entry runs out
CacheExpires ==
  /\ \/ \E key \in DOMAIN acache :
          /\ acache[key].k # "null"
          /\ acache' = [acache EXCEPT ![key] = Null]
          /\ UNCHANGED ocache
     \/ \E key \in DOMAIN ocache :
          /\ ocache[key].k # "null"
          /\ ocache' = [ocache EXCEPT ![key] = Null]
          /\ UNCHANGED acache
  /\ UNCHANGED an

AnalysisNext ==
  \/ AnalyzeRequest
  \/ AnalysisCacheGet
  \/ FindCoinId
  \/ GetCoinData
  \/ GetProtocolTVL
  \/ ScrapeBasicStats
  \/ \E p \in SocialPlatforms : SocialFetchSettles(p)
  \/ SocialFanIn
  \/ OnchainCacheGet
  \/ \E c \in ChainKeys : ChainFetchSettles(c)
  \/ OnchainFanIn
  \/ CalculateScores
  \/ AnalysisCacheSet
  \/ AnalysisSaved
  \/ CacheExpires

----------------------------------------------------------------------------
(* Specification of the scoring engine                                     *)

Init == ScoringInit /\ ServerInit /\ BatchIdle /\ AnalysisIdle /\ TtlIdle

Next == ScoringNext /\ UNCHANGED <<serverVars, batchVars, analysisVars, ttlVars>>

Spec == Init /\ [][Next]_vars

----------------------------------------------------------------------------
(* Specification of an engine constructed from an edited configuration:    *)
(* the constructor copies config.scoring.weights without looking at them.  *)

WeightCandidates ==
  {ConfigWeights,
   [ConfigWeights EXCEPT !.onchain = 19],
   [ConfigWeights EXCEPT !.onchain = 31]}

WeightSum(w) == w.tokenomics + w.liquidity + w.social + w.onchain

InitConfig ==
  /\ op = "idle"
  /\ arg = NoValue
  /\ res = NoValue
  /\ weights \in WeightCandidates
  /\ ServerInit
  /\ BatchIdle
  /\ AnalysisIdle
  /\ TtlIdle

NextConfig ==
  (CalculateOverallScore \/ Return) /\ UNCHANGED <<serverVars, batchVars, analysisVars, ttlVars>>

SpecConfig == InitConfig /\ [][NextConfig]_vars

----------------------------------------------------------------------------
(* Specification of the controller serving concurrent requests             *)

InitServer == ScoringInit /\ ServerInit /\ BatchIdle /\ AnalysisIdle /\ TtlIdle

NextServer == ServerNext /\ UNCHANGED <<scoringVars, batchVars, analysisVars, ttlVars>>

SpecServer == InitServer /\ [][NextServer]_vars

----------------------------------------------------------------------------
(* Specification of compare requests served one after another              *)

CompareNext ==
  \/ ReceiveCompareSerial
  \/ \E q \in InFlight : CompareCacheGet(q)
  \/ \E q \in InFlight : AnalyzeCoinResolves(q)
  \/ \E q \in InFlight : AnalyzeCoinRejects(q)
  \/ \E q \in InFlight : CacheSet(q)
  \/ \E q \in InFlight : SaveAnalysis(q)
  \/ \E key \in CacheKeys : Expire(key)

InitCompare == ScoringInit /\ ServerInit /\ BatchIdle /\ AnalysisIdle /\ TtlIdle

NextCompare == CompareNext /\ UNCHANGED <<scoringVars, batchVars, analysisVars, ttlVars>>

SpecCompare == InitCompare /\ [][NextCompare]_vars

----------------------------------------------------------------------------
(* Specification of analyze requests served one after another while the    *)
(* clock of the cache runs                                                 *)

InitTimed == ScoringInit /\ ServerInit /\ BatchIdle /\ AnalysisIdle /\ TtlIdle

NextTimed == TimedNext /\ UNCHANGED <<scoringVars, batchVars, analysisVars>>

SpecTimed == InitTimed /\ [][NextTimed]_vars

----------------------------------------------------------------------------
(* Specification of batch analysis                                         *)

InitBatch == ScoringInit /\ ServerInit /\ BatchIdle /\ AnalysisIdle /\ TtlIdle

NextBatch == BatchNext /\ UNCHANGED <<scoringVars, serverVars, analysisVars, ttlVars>>

SpecBatch == InitBatch /\ [][NextBatch]_vars

\* every provider call settles (each has a timeout), the 2000 ms timer fires
\* and the caller resumes: a step that can be taken is taken
SpecBatchLive == SpecBatch /\ WF_vars(NextBatch)

----------------------------------------------------------------------------
(* Specification of a single analyze request served on cold caches, every  *)
(* provider call free to succeed, to find nothing or to fail               *)

InitAnalysis == ScoringInit /\ ServerInit /\ BatchIdle /\ AnalysisIdle /\ TtlIdle

NextAnalysis ==
  /\ an.pc # "done"
  /\ AnalysisNext
  /\ UNCHANGED <<scoringVars, serverVars, batchVars, ttlVars>>

SpecAnalysis == InitAnalysis /\ [][NextAnalysis]_vars

----------------------------------------------------------------------------
(* Specification of analyze requests one after another while every         *)
(* provider call answers with data                                         *)

ProvidersAnswer ==
  /\ an.failed = {}
  /\ an.tvlData.k # "null"
  /\ \A f \in Fetchers : an.got[f] # "null"

InitRefresh == ScoringInit /\ ServerInit /\ BatchIdle /\ AnalysisIdle /\ TtlIdle

NextRefresh ==
  /\ AnalysisNext
  /\ ProvidersAnswer'
  /\ UNCHANGED <<scoringVars, serverVars, batchVars, ttlVars>>

SpecRefresh == InitRefresh /\ [][NextRefresh]_vars

----------------------------------------------------------------------------
(* Claims about the scoring engine                                         *)

Scorers == {"scoreTokenomics", "scoreLiquidity", "scoreSocial", "scoreOnchain"}

\* C1: every score returned by scoreTokenomics, scoreLiquidity, scoreSocial
\* and scoreOnchain is a number between 0 and 10, whatever the input.
C1_ScoreInRange ==
  (op \in Scorers /\ ~res.threw) =>
    (IsNum(res.score) /\ 0 <= res.score.v /\ res.score.v <= 10 * Unit)

\* C2: classifyScore maps a score to GREEN from 7.0, to YELLOW from 5.0 up
\* to (not including) 7.0 and to RED below 5.0, and the classification of
\* every assembled report is the one of its overall_score.
LevelOf(score) ==
  IF score >= 70000 THEN "GREEN" ELSE IF score >= 50000 THEN "YELLOW" ELSE "RED"

C2_Classification ==
  /\ op = "classifyScore" =>
       /\ res = LevelOf(arg)
       /\ (arg = 70000 => res = "GREEN")
       /\ (arg = 69990 => res = "YELLOW")
       /\ (arg = 50000 => res = "YELLOW")
       /\ (arg = 49990 => res = "RED")
  /\ (op = "analyzeCoin" /\ ~res.threw /\ IsNum(res.overall_score)) =>
       res.classification = LevelOf(res.overall_score.v)

C2_Witness == op = "classifyScore" /\ arg = 69990 /\ res = "YELLOW"

\* C3 (as stated): two score maps that differ in one component by Delta
\* have overall scores that differ by exactly Delta times the weight of
\* that component.
Deltas == {-100, 100, Unit}

C3_ExactLinearity ==
  op = "calculateOverallScore" =>
    \A c \in Components, d \in Deltas :
      LET other == [arg.scores EXCEPT ![c] = @ + d]
      IN (calculateOverallScore(other, weights, arg.tieUp) - res) * 100 = d * weights[c]

\* C3 (amended): the overall scores differ by Delta times the weight up to
\* the rounding of each result to two decimals, i.e. by at most 0.01.
C3_LinearUpToRounding ==
  op = "calculateOverallScore" =>
    \A c \in Components, d \in Deltas, tie2 \in BOOLEAN :
      LET other == [arg.scores EXCEPT ![c] = @ + d]
      IN Abs((calculateOverallScore(other, weights, tie2) - res) * 100 - d * weights[c])
           <= Unit

\* the rounding to two decimals changed the weighted sum
C3_Witness ==
  /\ op = "calculateOverallScore"
  /\ res * 100 # arg.scores.tokenomics * 30 + arg.scores.liquidity * 25
                 + arg.scores.social * 20 + arg.scores.onchain * 25

\* C4: weights that do not sum to 1.0 within 0.01 are rejected, so no
\* overall score is ever computed with them.
C4_WeightsValidated ==
  Abs(WeightSum(weights) - 100) > 1 => op # "calculateOverallScore"

\* C5: the tier is a monotonic step function of the total holder count
\* alone: mega above 1,000,000, large above 100,000, mid above 10,000,
\* small above 1,000, micro otherwise.
TierOf(h) ==
  IF h > 1000000 THEN "Mega Cap" ELSE IF h > 100000 THEN "Large Cap"
  ELSE IF h > 10000 THEN "Mid Cap" ELSE IF h > 1000 THEN "Small Cap" ELSE "Micro Cap"

TierRank(label) ==
  CASE label = "Micro Cap" -> 1 [] label = "Small Cap" -> 2 [] label = "Mid Cap" -> 3
    [] label = "Large Cap" -> 4 [] label = "Mega Cap" -> 5 [] OTHER -> 0

TierProbes == {0, 1000, 1001, 10000, 10001, 100000, 100001, 1000000, 1000001}

C5_TierStepFunction ==
  (op = "scoreOnchain" /\ ~res.threw) =>
    /\ res.tier = TierOf(res.details.total_holders)
    /\ \A h \in TierProbes :
         LET other == TierLabel(classifyTier(h))
         IN /\ other = TierOf(h)
            /\ (h >= res.details.total_holders => TierRank(other) >= TierRank(res.tier))
            /\ (h <= res.details.total_holders => TierRank(other) <= TierRank(res.tier))

C5_Witness ==
  /\ op = "scoreOnchain" /\ ~res.threw
  /\ res.details.total_holders = 1000000 /\ res.tier = "Large Cap"

\* C6: with an empty chain list and no root totals the aggregate is all
\* zero and its tier is tagged unknown.
NoRootTotals(onchainData) ==
  /\ ~Truthy(onchainData.total_holders)
  /\ ~Truthy(onchainData.active_addresses_7d)
  /\ ~Truthy(onchainData.active_addresses_30d)

C6_EmptyIsUnknown ==
  (op = "scoreOnchain" /\ ~res.threw /\ arg.chains = <<>> /\ NoRootTotals(arg)) =>
    /\ res.details.total_holders = 0
    /\ res.details.active_addresses_7d = 0
    /\ res.details.active_addresses_30d = 0
    /\ res.tier \in {"unknown", "Unknown Cap"}

\* C7: when the totals are aggregated from the chains, holders, active-7d
\* and active-30d are the sums of the per-chain values, and a single chain
\* reproduces its own totals.  scoreOnchain sums total_holders and
\* estimated_active_*; the service's aggregateMultiChainMetrics sums
\* holders_count and active_addresses_*.
AggregationUsed(onchainData) ==
  Len(onchainData.chains) > 0 /\ ~Truthy(onchainData.total_holders)

SumOver(cl, fld) == SumSeq([i \in DOMAIN cl |-> OrZero(cl[i][fld])])

----------------------------------------------------------------------------
(* Claims about the controller                                             *)

HitOf(q) ==
  [q EXCEPT !.cachedResult = cache[CacheKey(q.ticker)], !.pc = "done",
            !.resp = [status |-> 200, error |-> "", from_cache |-> TRUE,
                      body |-> cache[CacheKey(q.ticker)],
                      cache_expires_in |-> 60]]

\* C8: an analyze request without refresh=true whose cache read finds a
\* live entry answers with exactly that stored report and from_cache=true,
\* and does no fetch, no scoring and no history write.
C8_CacheRoundTrip ==
  /\ [](\A q \in InFlight :
          (q.kind = "analyze" /\ IsReport(q.cachedResult)) =>
            /\ q.refresh # "true"
            /\ q.pc = "done"
            /\ q.resp.status = 200 /\ q.resp.from_cache = TRUE
            /\ q.resp.body = q.cachedResult
            /\ q.cachedResult \in produced
            /\ q.cachedResult.ticker = ToUpperCase(q.ticker)
            /\ ~q.fetched /\ ~q.saved /\ q.result = Null)
  /\ [][\A q \in InFlight :
          (/\ q.kind = "analyze" /\ q.pc = "cacheGet"
           /\ IsReport(cache[CacheKey(q.ticker)])
           /\ CopiesIn(q, reqs') < CopiesIn(q, reqs)) =>
            /\ CopiesIn(HitOf(q), reqs') = CopiesIn(HitOf(q), reqs) + 1
            /\ UNCHANGED <<cache, history, nextId, produced>>]_vars

C8_Witness ==
  \E q \in InFlight :
    /\ q.kind = "analyze" /\ q.ticker = "btc" /\ q.pc = "done"
    /\ q.resp.from_cache = TRUE /\ q.resp.body.ticker = "BTC"
    /\ q.resp.body = cache[CacheKey("btc")]
    /\ Len(history) = 1

ReportFields == {"k", "ticker", "overall_score", "classification", "analyzed_at"}

\* C9: whatever the interleaving of analyze and compare requests, every
\* cache entry is a complete report returned by one finished analyzeCoin
\* call for the ticker of its key; a failed analysis writes nothing and no
\* entry is partially updated.
C9_CacheEntriesComplete ==
  /\ [](\A key \in CacheKeys :
          \/ cache[key] = Null
          \/ /\ IsReport(cache[key])
             /\ DOMAIN cache[key] = ReportFields
             /\ cache[key] \in produced
             /\ CacheKey(cache[key].ticker) = key)
  /\ [][cache' # cache =>
          \/ \E key \in CacheKeys : cache' = [cache EXCEPT ![key] = Null]
          \/ \E q \in InFlight :
               /\ q.pc = "cacheSet" /\ q.result \in produced
               /\ cache' = [cache EXCEPT ![CacheKey(q.result.ticker)] = q.result]]_vars

\* two requests for the same ticker both missed and both recomputed; the
\* entry is the report of the analysis that finished first
C9_Witness ==
  \E q1 \in InFlight, q2 \in InFlight :
    /\ q1.kind = "analyze" /\ q2.kind = "analyze"
    /\ q1.refresh = "false" /\ q2.refresh = "false"
    /\ q1.ticker = "btc" /\ q2.ticker = "btc"
    /\ IsReport(q1.result) /\ IsReport(q2.result)
    /\ q1.result.analyzed_at = 1 /\ q2.result.analyzed_at = 2
    /\ q1.pc = "done" /\ q2.pc = "done"
    /\ cache[CacheKey("btc")] = q1.result

----------------------------------------------------------------------------
(* Claims about batch analysis                                             *)

InFlightBounded == Cardinality(bFlight) <= bMax

\* every analysis in flight belongs to the current wave, nothing is in
\* flight outside a wave, and everything before the wave has settled
WavesSeparated ==
  /\ \A a \in bFlight : bI < a.idx /\ a.idx <= bI + bMax
  /\ bPc # "wave" => bFlight = {}
  /\ bPc \in {"wave", "sleep"} =>
       Len(bResults) + Len(bErrors) + Cardinality(bFlight) = Min(bI + bMax, Len(bTickers))

\* C10 (as stated): never more than maxConcurrent analyses in flight, a
\* wave starts only after the previous one has settled, waves are
\* separated by a pause, and for 7 tickers with maxConcurrent = 3 at most
\* 3 provider calls are concurrent and at least one pause occurs.
C10_ProviderCallsBounded ==
  /\ InFlightBounded
  /\ WavesSeparated
  /\ (Len(bTickers) = 7 /\ bMax = 3) =>
       /\ ProviderCalls <= 3
       /\ bPc = "returned" => bSleeps >= 1

\* C10 (amended): the bound is on the analyses in flight, not on provider
\* calls: never more than maxConcurrent (default 3) analyses are in
\* flight, a wave starts only after the previous one has settled and the
\* pause has elapsed, and a batch of n > 0 tickers pauses exactly
\* ceil(n / maxConcurrent) - 1 times (twice for 7 tickers and 3).
C10_BoundedWaves ==
  /\ [](/\ InFlightBounded
        /\ WavesSeparated
        /\ (bPc = "returned" /\ Len(bTickers) > 0) =>
             bSleeps = (Len(bTickers) - 1) \div bMax
        /\ (bPc = "returned" /\ Len(bTickers) = 7 /\ bMax = 3) => bSleeps = 2)
  /\ [][(bPc' = "wave" /\ bI' > bI) =>
          (bPc = "sleep" /\ bFlight = {} /\ bSleeps' = bSleeps /\ bSleeps > 0)]_vars

\* second wave of 7 tickers, three analyses in flight, each awaiting the
\* three social platforms
C10_Witness ==
  /\ Len(bTickers) = 7 /\ bMax = 3 /\ bI = 3 /\ bSleeps = 1
  /\ Cardinality(bFlight) = 3
  /\ ProviderCalls = 9

----------------------------------------------------------------------------
(* Claims about the analysis pipeline                                      *)

\* every fetch of the analysis has delivered its result or its fallback
FetchesResolved(a) ==
  /\ a.pending = {}
  /\ \A f \in Fetchers : a.got[f] # "pending"
  /\ a.lookup = "found"
  /\ a.tvlData.k # "none"
  /\ a.twitterData.k # "none"
  /\ a.socialData # NoValue
  /\ a.onchainData # NoValue

\* C11: within one analysis the scoring step never begins before every
\* data fetch (market data, TVL, Twitter, each social platform, each chain)
\* has resolved or been replaced by its fallback: whenever the analysis is
\* at or past the scoring step no fetch is pending, and the step that
\* scores starts from a state in which all fetch results are in.
C11_ScoringAfterFanIn ==
  /\ [](an.pc \in {"scoring", "cacheSet", "saveAnalysis"} => FetchesResolved(an))
  /\ [][an.result = NoValue /\ an'.result # NoValue => FetchesResolved(an)]_vars

\* a multi-chain analysis reaches the scoring step after one explorer and
\* one social platform failed and the others delivered
C11_Witness ==
  /\ an.pc = "scoring"
  /\ an.kind = "multi"
  /\ \E c \in ChainKeys : an.got[c] = "null"
  /\ \E c \in ChainKeys : an.got[c] = "data"
  /\ an.got["reddit"] = "null"
  /\ an.got["github"] = "data"
  /\ "reddit" \in an.failed

\* the collaborators outside the process, by the name their failure is
\* recorded under
ExternalCollaborators ==
  {"coinlist", "coingecko", "defillama", "twitter"} \cup Fetchers

\* C12: when an external collaborator (market data, TVL, Twitter, a social
\* platform, an on-chain explorer) timed out or failed with an error, the
\* request still ends with status 200 and a report.
C12_FailuresRecovered ==
  (/\ an.pc = "done"
   /\ an.failed # {}
   /\ an.failed \subseteq ExternalCollaborators) =>
    (an.resp.status = 200 /\ IsReport(an.resp.body))

\* the tickers of AnTickers that match /^[a-zA-Z0-9]{1,10}$/
WellFormedTickers == {"usdt"}

\* C13: a ticker the market-data provider does not list ends the request
\* with 404 'Coin not found', without a report, a cache entry or a second
\* lookup; and a 404 is answered only for such a ticker.
C13_NotFoundExactly ==
  an.pc = "done" =>
    /\ an.ticker \notin ListedTickers =>
         /\ an.resp = ErrorResponse(404, "Coin not found")
         /\ an.result = NoValue
         /\ acache[CacheKey(an.ticker)] = Null
         /\ an.lookups = 1
    /\ an.resp.status = 404 => an.ticker \notin ListedTickers

\* C14: a malformed ticker on the analyze endpoint is answered 400 at once,
\* before the analysis cache is read and before the coin is looked up.
C14_ValidationFirst ==
  (an.pc # "idle" /\ an.ticker \notin WellFormedTickers) =>
    /\ an.pc = "done"
    /\ an.resp.status = 400
    /\ ~an.readCache
    /\ an.lookups = 0

\* C15: a request whose analysis produced a report is answered 200, whether
\* or not the write to the history store succeeded.
C15_SaveFailureTolerated ==
  \A q \in InFlight :
    (q.pc = "done" /\ IsReport(q.result)) => q.resp.status = 200

----------------------------------------------------------------------------
(* Claims about ghost tokens and missing metrics                           *)

GhostMarkers == {"GHOST TOKEN", "Pre-launch stage"}

\* the call scored totals of 20 holders and 1 address active in 7 days
GhostTotals ==
  /\ op = "scoreOnchain"
  /\ ~res.threw
  /\ res.details.total_holders = 20
  /\ res.details.active_addresses_7d = 1

\* C16: when the totals scoreOnchain works with are 20 holders and 1
\* address active in 7 days, red_flags holds the ghost-token or the
\* pre-launch marker and the score is at most 2.0.
C16_GhostToken ==
  GhostTotals =>
    /\ \E i \in DOMAIN res.red_flags : res.red_flags[i] \in GhostMarkers
    /\ res.score.v <= 2 * Unit

\* the input carries holder and active-address totals and nothing else
OnlyTotals(onchainData) ==
  /\ onchainData.chains = <<>>
  /\ \A fld \in {"total_transfers_24h", "total_transfers_7d", "weighted_concentration",
                  "chain_info", "chain_count", "address_growth_mom", "tvl_change_7d",
                  "daily_active_ratio"} : onchainData[fld] = Undefined

\* C16 (amended): with totals of 20 holders and 1 address active in 7 days
\* red_flags holds the pre-launch and the ghost-token marker, whatever else
\* the input carries; the score is at most 2.0 when the input carries
\* nothing but holder and active-address totals.
C16_GhostTokenMarked ==
  GhostTotals =>
    /\ \A mk \in GhostMarkers : \E i \in DOMAIN res.red_flags : res.red_flags[i] = mk
    /\ OnlyTotals(arg) => res.score.v <= 2 * Unit

C16_Witness ==
  /\ GhostTotals
  /\ OnlyTotals(arg)
  /\ res.score.v <= 2 * Unit
  /\ Len(res.red_flags) >= 2

CirculatingFlags ==
  {"High circulating ratio", "Moderate circulating ratio", "Low circulating ratio"}
BinanceFlags ==
  {"Healthy Binance volume", "High Binance dominance", "Low Binance volume",
   "Very low Binance volume"}

NoFlagOf(flags, S) == \A i \in DOMAIN flags : flags[i] \notin S

\* C17: a rule family whose raw metric is undefined is skipped: without
\* total_supply scoreTokenomics pushes no circulating-ratio flag, without
\* binance_volume or total_volume scoreLiquidity pushes no Binance-share
\* flag, and without holder totals and chain records scoreOnchain raises no
\* red flag.
C17_MissingMetricSkipped ==
  /\ (op = "scoreTokenomics" /\ arg.total_supply = Undefined) =>
       NoFlagOf(res.flags, CirculatingFlags)
  /\ (/\ op = "scoreLiquidity"
      /\ ~res.threw
      /\ Undefined \in {arg.liquidity.binance_volume, arg.liquidity.total_volume}) =>
       NoFlagOf(res.flags, BinanceFlags)
  /\ (/\ op = "scoreOnchain"
      /\ ~res.threw
      /\ arg.total_holders = Undefined
      /\ arg.active_addresses_7d = Undefined
      /\ arg.chains = <<>>) =>
       res.red_flags = <<>>

----------------------------------------------------------------------------
(* Claims about the report of an analysis                                  *)

SourceTags ==
  {"real (CoinGecko API)", "real (DefiLlama API)", "not available",
   "twitter_scrape", "failed_scrape", "real (enhanced)",
   "simulated (LunarCrush-style)", "real (multi-chain aggregated)",
   "simulated (fallback)", "estimated (native coin)"}

\* the tags that contain 'simulated'
SimulatedTags == {"simulated (LunarCrush-style)", "simulated (fallback)"}

FullyShaped(report) ==
  /\ IsReport(report)
  /\ report.ticker \in {ToUpperCase(t) : t \in AnTickers}
  /\ IsNum(report.overall_score)
  /\ report.classification \in {"GREEN", "YELLOW", "RED"}
  /\ DOMAIN report.scores = Components
  /\ \A c \in Components : IsNum(report.scores[c])
  /\ IsNum(report.market_data.price_usd) /\ IsNum(report.market_data.market_cap)
  /\ \A s \in DOMAIN report.data_sources : report.data_sources[s] \in SourceTags
  /\ report.metadata.analyzed_at # ""

LegacySocialScore(m) ==
  5 * Unit + m.galaxy_score.v * 400 - 2 * Unit
    + (IF m.alt_rank.v <= 100 THEN 2 * Unit
       ELSE IF m.alt_rank.v <= 500 THEN Unit
       ELSE IF m.alt_rank.v > 2000 THEN -Unit ELSE 0)
    + (IF m.sentiment = "bullish" THEN Unit
       ELSE IF m.sentiment = "bearish" THEN -(Unit \div 2) ELSE 0)
    + (IF m.social_volume_24h.v > 20000 THEN Unit
       ELSE IF m.social_volume_24h.v < 5000 THEN -(Unit \div 2) ELSE 0)

SocialUnavailable == \A p \in SocialPlatforms : an.got[p] = "null"

\* C19: when every social platform fetch returned null or failed, the
\* social metrics are the mock set tagged data_quality 'simulated' with a
\* data_source containing 'simulated', the social score of the report is the
\* one of the legacy path, and data_sources.social_sentiment contains
\* 'simulated'.
C19_SocialFallback ==
  SocialUnavailable =>
    /\ an.socialData # NoValue =>
         /\ an.socialData.data_quality = "simulated"
         /\ an.socialData.data_source \in SimulatedTags
         /\ an.socialData.data_source # "real (enhanced)"
    /\ an.result # NoValue =>
         /\ an.result.scores.social = Num(LegacySocialScore(an.socialData))
         /\ an.result.data_sources.social_sentiment \in SimulatedTags

C19_Witness ==
  /\ SocialUnavailable
  /\ an.pc = "done" /\ an.resp.status = 200
  /\ an.failed \cap SocialPlatforms # {}
  /\ SocialPlatforms \ an.failed # {}
  /\ an.resp.body.data_sources.social_sentiment = "simulated (LunarCrush-style)"

\* C20: a request with refresh=true never reads the analysis cache, takes
\* its on-chain metrics from the explorers and not from the on-chain cache,
\* leaves its new report in the ticker's cache entry and answers with
\* from_cache = false.
C20_RefreshIsFresh ==
  an.refresh = "true" =>
    /\ ~an.readCache
    /\ ~an.onchainCached
    /\ an.pc = "saveAnalysis" => acache[CacheKey(an.ticker)] \in {an.result, Null}
    /\ (an.pc = "done" /\ an.resp.status = 200) =>
         (~an.resp.from_cache /\ an.resp.body = an.result)

----------------------------------------------------------------------------
(* Claims about the comparison                                             *)

\* how many elements of the sequence s satisfy ticker = t
CountTicker(s, t) == Cardinality({i \in DOMAIN s : s[i] = t})

----------------------------------------------------------------------------
(* Claims about the steps of scoreOnchain                                  *)

StepDeltas(onchainData) ==
  LET steps == onchainSteps(onchainData) IN [i \in DOMAIN steps |-> steps[i].d]

Reversed(s) == [i \in DOMAIN s |-> s[Len(s) + 1 - i]]

\* 5 plus the first k deltas
PrefixScore(deltas, k) == 5 * Unit + SumSeq(SubSeq(deltas, 1, k))

\* C23: the score of scoreOnchain is 5 plus the sum of all deltas, rounded
\* and clamped to [0, 10] once at the end, whatever the order in which the
\* deltas are added; the tier and the totals of the result are those
\* computed from the input before any step.
C23_ClampOnceAtEnd ==
  (op = "scoreOnchain" /\ ~res.threw) =>
    LET agg == aggregateTotals(arg) IN
    /\ res.score = ClampScore(Num(5 * Unit + SumSeq(StepDeltas(arg))))
    /\ res.score = ClampScore(Num(5 * Unit + SumSeq(Reversed(StepDeltas(arg)))))
    /\ res.tier = TierLabel(classifyTier(agg.totalHolders))
    /\ res.details.total_holders = agg.totalHolders
    /\ res.details.active_addresses_7d = agg.totalActive7d
    /\ res.details.active_addresses_30d = agg.totalActive30d

\* the running score left [0, 10] on the way and came back
C23_Witness ==
  /\ op = "scoreOnchain" /\ ~res.threw
  /\ 0 < res.score.v /\ res.score.v < 10 * Unit
  /\ \E k \in DOMAIN StepDeltas(arg) : PrefixScore(StepDeltas(arg), k) > 10 * Unit
  /\ Len(res.red_flags) > 0

AggregationNotes == {"Data aggregated from individual chains", "Using root-level data"}

\* C24: scoreOnchain aggregates from the chain records exactly when the
\* root total holders is zero or missing and the chain list is not empty;
\* aggregation_note is 'Data aggregated from individual chains' and the
\* 'Multi-chain aggregation' flag is present if and only if it aggregated,
\* otherwise aggregation_note is 'Using root-level data'.
C24_AggregationFlagged ==
  (op = "scoreOnchain" /\ ~res.threw) =>
    LET used == aggregateTotals(arg).aggregated
        flagged == \E i \in DOMAIN res.flags : res.flags[i] = "Multi-chain aggregation"
    IN /\ used <=> (~Truthy(arg.total_holders) /\ Len(arg.chains) > 0)
       /\ flagged <=> used
       /\ res.aggregation_note \in AggregationNotes
       /\ res.aggregation_note = "Data aggregated from individual chains" <=> used

\* the per-chain top-10 concentrations that are > 0
ReportedConcentrations(chainList) ==
  {OrZero(chainList[i].top_10_concentration) : i \in DOMAIN chainList} \ {0}

ConcentrationFlags ==
  {"Excellent distribution", "Good distribution", "Fair distribution",
   "Moderate concentration risk", "High concentration", "EXTREME concentration"}

\* C25: the concentration scoreOnchain scores with is the maximum of the
\* per-chain top-10 concentrations that are > 0 (the minimum being the best
\* concentration); only when no chain reports one it is the root
\* weighted_concentration, and when that is 0 too no concentration rule
\* applies.
C25_WorstConcentration ==
  (op = "scoreOnchain" /\ ~res.threw) =>
    LET reported == ReportedConcentrations(arg.chains)
        all == res.flags \o res.warnings \o res.red_flags
    IN /\ reported # {} =>
            /\ \A c \in reported : c <= worstConcentration(arg.chains)
            /\ worstConcentration(arg.chains) \in reported
            /\ \A c \in reported : bestConcentration(arg.chains) <= c
            /\ bestConcentration(arg.chains) \in reported
            /\ res.details.concentration = worstConcentration(arg.chains)
       /\ reported = {} =>
            res.details.concentration = OrZero(arg.weighted_concentration)
       /\ (\E i \in DOMAIN all : all[i] \in ConcentrationFlags)
            <=> res.details.concentration > 0

C25_Witness ==
  /\ op = "scoreOnchain" /\ ~res.threw
  /\ Cardinality(ReportedConcentrations(arg.chains)) = 2
  /\ Truthy(arg.weighted_concentration)
  /\ res.details.concentration = 96
  /\ bestConcentration(arg.chains) = 15

\* the points each scoreLiquidity flag stands for
LiquidityDelta(flag) ==
  CASE flag = "High volume/mcap ratio" -> 25000
    [] flag = "Good volume/mcap ratio" -> 15000
    [] flag = "Moderate volume/mcap ratio" -> 5000
    [] flag = "Low volume/mcap ratio" -> -10000
    [] flag = "Healthy Binance volume" -> 20000
    [] flag = "High Binance dominance" -> 10000
    [] flag = "Low Binance volume" -> 5000
    [] flag = "Very low Binance volume" -> -15000
    [] flag = "High absolute volume" -> 10000
    [] flag = "Moderate volume" -> 5000
    [] flag = "Low volume" -> -10000

\* the Binance share r = binance_volume / total_volume is a proper number
ShareDefined(liquidity) ==
  /\ IsNum(liquidity.binance_volume)
  /\ IsNum(liquidity.total_volume)
  /\ liquidity.total_volume.v > 0

\* the bands of the share b / t, the shared end points 30% read either way
BandOfShare(b, t, flag) ==
  /\ (flag = "Very low Binance volume") <=> (10 * b < t)
  /\ (flag = "High Binance dominance") <=> (5 * b >= 4 * t)
  /\ (flag = "Healthy Binance volume") => (3 * t <= 10 * b /\ 5 * b < 4 * t)
  /\ (flag = "Low Binance volume") => (t <= 10 * b /\ 10 * b <= 3 * t)

\* C26: scoreLiquidity applies exactly one band to the Binance share r:
\* +2 between 30% and 80%, +1 from 80%, +0.5 between 10% and 30%, and -1.5
\* with the wash-trading flag exactly when r < 10%.
C26_BinanceBand ==
  (op = "scoreLiquidity" /\ ~res.threw /\ ShareDefined(arg.liquidity)) =>
    LET band == {i \in DOMAIN res.flags : res.flags[i] \in BinanceFlags}
    IN /\ Cardinality(band) = 1
       /\ \A i \in band :
            BandOfShare(arg.liquidity.binance_volume.v,
                        arg.liquidity.total_volume.v, res.flags[i])
       /\ res.score =
            ClampScore(Num(5 * Unit
                           + SumSeq([i \in DOMAIN res.flags |->
                                       LiquidityDelta(res.flags[i])])))

\* a sub-score as the blend counts it: a missing one is 0
SubScoreOrZero(v) == IF IsNum(v) THEN v.v ELSE 0

SentimentDelta(sentiment) ==
  IF sentiment = "bullish" THEN 5000 ELSE IF sentiment = "bearish" THEN -5000 ELSE 0

ClampUnits(x) == IF x < 0 THEN 0 ELSE IF x > 10 * Unit THEN 10 * Unit ELSE x

\* C27: scoreSocial takes the enhanced path exactly when data_source is
\* 'real (enhanced)'; there the score is (community*0.4 + engagement*0.3 +
\* developer*0.3) / 10, plus 0.5 for bullish and minus 0.5 for bearish
\* sentiment, clamped to [0, 10], a missing sub-score counting as 0, and
\* the platform objects (twitter, reddit, github) do not change the score.
C27_EnhancedBlend ==
  (op = "scoreSocial" /\ ~res.threw) =>
    /\ (res.path = "enhanced") <=> (arg.data_source = "real (enhanced)")
    /\ (arg.data_source = "real (enhanced)") =>
         /\ IsNum(res.score)
         /\ res.score.v =
              ClampUnits((4 * SubScoreOrZero(arg.community_score)
                          + 3 * SubScoreOrZero(arg.engagement_score)
                          + 3 * SubScoreOrZero(arg.developer_score)) * 100
                         + SentimentDelta(arg.sentiment))
         /\ \A tw \in TwitterObjects, rd \in RedditObjects, gh \in GithubObjects :
              scoreSocial([arg EXCEPT !.twitter = tw, !.reddit = rd,
                                      !.github = gh]).score = res.score

C27_Witness ==
  /\ op = "scoreSocial" /\ ~res.threw
  /\ arg.data_source = "real (enhanced)"
  /\ arg.community_score = Undefined
  /\ arg.engagement_score = Num(50)
  /\ arg.developer_score = Num(100)
  /\ arg.sentiment = "bullish"
  /\ arg.twitter.k = "obj" /\ arg.twitter.verified
  /\ res.score = Num(50000)
  /\ Len(res.flags) >= 3

\* how often the entry e occurs in the sequence s
Occurrences(s, e) == Cardinality({i \in DOMAIN s : s[i] = e})

\* C30: 'WHALE CONTROLLED' (-2.5) fires only with fewer than 1000 holders,
\* hence only in the micro tier, 'High whale dominance risk' (-1.5) only
\* with fewer than 2000 holders; in the mid, large and mega tiers neither
\* fires, at most one of the two fires, and neither fires when no
\* concentration is known.
C30_WhaleFlagsLowHolders ==
  (op = "scoreOnchain" /\ ~res.threw) =>
    LET controlled == Occurrences(res.red_flags, "WHALE CONTROLLED")
        dominance == Occurrences(res.red_flags, "High whale dominance risk")
        tier == classifyTier(res.details.total_holders)
        steps == onchainSteps(arg)
    IN /\ controlled > 0 => (res.details.total_holders < 1000 /\ tier = "micro")
       /\ dominance > 0 =>
            (res.details.total_holders < 2000 /\ tier \in {"micro", "small"})
       /\ tier \in {"mid", "large", "mega"} => controlled + dominance = 0
       /\ controlled + dominance <= 1
       /\ res.details.concentration = 0 => controlled + dominance = 0
       /\ \A i \in DOMAIN steps :
            /\ steps[i].r = <<"WHALE CONTROLLED">> => steps[i].d = -25000
            /\ steps[i].r = <<"High whale dominance risk">> => steps[i].d = -15000

C30_Witness ==
  /\ op = "scoreOnchain" /\ ~res.threw
  /\ Occurrences(res.red_flags, "High whale dominance risk") = 1
  /\ classifyTier(res.details.total_holders) = "small"
  /\ res.details.concentration > whaleLimits("mid").critical

\* minutes since the entry under the key of q was written
AgeOfEntry(q) == clock - written[CacheKey(q.ticker)]

\* a request is about to read an entry written more than m minutes ago
ReadsAfter(q, m) ==
  /\ q.kind = "analyze" /\ q.pc = "cacheGet"
  /\ written[CacheKey(q.ticker)] >= 0
  /\ AgeOfEntry(q) > m

\* C22 (as stated): the report is cached with a time to live of 30 minutes:
\* a request arriving more than 30 minutes after the write finds no entry
\* and recomputes, and a hit is reported with a lifetime of 30 minutes.
C22_ThirtyMinuteTtl ==
  \A q \in InFlight :
    /\ ReadsAfter(q, 30) => ~IsReport(cache[CacheKey(q.ticker)])
    /\ (q.pc = "done" /\ q.resp.from_cache) => q.resp.cache_expires_in = 30

\* C22 (amended): the report is cached under the single key made of its
\* upper-cased ticker with the time to live of config.redis.cacheTTL, one
\* hour by default: a request arriving more than one hour after the write
\* finds no entry and recomputes, an entry younger than that is answered
\* from the cache whole, and a hit is reported with a lifetime of one hour.
C22_ConfiguredTtl ==
  \A q \in InFlight :
    /\ ReadsAfter(q, cacheTTL \div 60) => ~IsReport(cache[CacheKey(q.ticker)])
    /\ \A key \in CacheKeys :
         (written[key] >= 0 /\ (clock - written[key]) * 60 < cacheTTL) =>
           (IsReport(cache[key]) /\ cache[key].ticker = key[2])
    /\ (q.pc = "done" /\ q.resp.from_cache) =>
         /\ q.resp.cache_expires_in * 60 = cacheTTL
         /\ q.resp.body \in produced
         /\ q.resp.body.ticker = ToUpperCase(q.ticker)

C22_Witness ==
  \E q \in InFlight :
    /\ q.pc = "done" /\ q.resp.from_cache
    /\ AgeOfEntry(q) > 30 /\ AgeOfEntry(q) * 60 < cacheTTL
    /\ cache[CacheKey(q.ticker)] = q.resp.body

\* the tickers of both lists of the returned object, as a bag
Settled == [t \in {bTickers[i] : i \in DOMAIN bTickers} |->
              CountTicker(bResults, t) + CountTicker(bErrors, t)]

StepsTo(q, r) == reqs' = (reqs (-) SetToBag({q})) (+) SetToBag({r})

\* a compare request works on one ticker at a time, in the order of the
\* request, and its failed analysis changes neither cache nor history
CompareStepwise ==
  \A q \in InFlight : \A r \in BagToSet(reqs') :
    (q.kind = "compare" /\ q.pc # "done" /\ r # q /\ StepsTo(q, r)) =>
      /\ r.tickers = q.tickers
      /\ r.i \in {q.i, q.i + 1}
      /\ Len(q.results) = q.i - 1
      /\ r.i = q.i + 1 => r.results = Append(q.results, r.results[q.i])
      /\ (q.pc = "analyze" /\ r.pc = "done") =>
           /\ r.resp = ErrorResponse(500, "Comparison failed")
           /\ r.i = q.i /\ r.results = q.results
           /\ cache' = cache
           /\ history' = history

\* an answered request takes no further step, and every write to the cache
\* or to the history is made by a request for the ticker it is working on
WritesByCurrentTicker ==
  /\ \A q \in InFlight : q.pc = "done" => CopiesIn(q, reqs') >= CopiesIn(q, reqs)
  /\ history' # history =>
       \E q \in InFlight :
         /\ q.pc = "saveAnalysis"
         /\ q.result.ticker = ToUpperCase(CurTicker(q))
         /\ history' = Append(history, q.result)
  /\ \A key \in CacheKeys :
       (cache'[key] # cache[key] /\ IsReport(cache'[key])) =>
         \E q \in InFlight :
           /\ q.pc = "cacheSet"
           /\ key = CacheKey(CurTicker(q))
           /\ cache'[key] = q.result

\* C29: compareCoins works on one ticker at a time, in the order of the
\* request; when the analysis of the k-th ticker fails the request is
\* answered 500 without a comparison, the cache entries and history rows
\* written for the tickers before it stay, and nothing is written for the
\* k-th and the later tickers.
C29_CompareNotAtomic == [][CompareStepwise /\ WritesByCurrentTicker]_vars

C29_Witness ==
  \E q \in InFlight :
    /\ q.kind = "compare" /\ q.pc = "done"
    /\ q.resp = ErrorResponse(500, "Comparison failed")
    /\ q.i = 2 /\ Len(q.tickers.v) = 3
    /\ q.result = Null
    /\ Len(q.results) = 1
    /\ IsReport(cache[CacheKey(q.tickers.v[1])])
    /\ ~IsReport(cache[CacheKey(q.tickers.v[2])])
    /\ Len(history) = 1
====
